---- MODULE Spec2Model ----
(***************************************************************************)
(* Job-report access layer of the RMMS maintenance-reporting application:  *)
(* the job_reports table, the permission gate of the Daily Jobs and Object *)
(* Details pages, the single-job edit form, the PM route edit form, the    *)
(* tag rename cascade of the tag editor, and the lock-retry wrappers.      *)
(***************************************************************************)
EXTENDS Integers, Sequences, FiniteSets, TLC

(***************************************************************************)
(* Bounds of the model.                                                    *)
(***************************************************************************)
MaxDay == 8
MaxUpdates == 2
NIdx == 2

(***************************************************************************)
(* Text.  A text is a sequence of whitespace-separated tokens; " | " is    *)
(* the token SEP.  Names are expanded to characters where the code         *)
(* compares characters (lower(), the `in` substring test).                 *)
(***************************************************************************)
SEP == "|"
PC_USER == "(srv)"
MODIFIER == "(modifier)"
MODIFIED == "(modified)"

Sessions == {"s1", "s2"}
UserNames == {"ali", "Al", "bo", "zed"}
Tags == {"T1", "T2"}
Descs == {"d1", "d2"}

\* rows of the users table: username -> is_admin ("zed" has no row)
UsersTable == [ali |-> 0, Al |-> 0, bo |-> 1]

Chars(tok) ==
    CASE tok = "ali" -> <<"a", "l", "i">>
      [] tok = "Al" -> <<"A", "l">>
      [] tok = "bo" -> <<"b", "o">>
      [] tok = "zed" -> <<"z", "e", "d">>
      [] tok = PC_USER -> <<"(", "s", "r", "v", ")">>
      [] tok = MODIFIER -> <<"(", "m", "o", "d", "i", "f", "i", "e", "r", ")">>
      [] tok = SEP -> <<"|">>
      [] OTHER -> <<tok>>

RECURSIVE Text(_)
Text(toks) ==
    IF toks = <<>> THEN <<>>
    ELSE IF Len(toks) = 1 THEN Chars(toks[1])
    ELSE Chars(toks[1]) \o <<" ">> \o Text(Tail(toks))

LowerChar(c) == IF c = "A" THEN "a" ELSE c
Lower(cs) == [i \in 1..Len(cs) |-> LowerChar(cs[i])]

\* Python `needle in hay` on strings
IsSubstr(needle, hay) ==
    \E i \in 0..(Len(hay) - Len(needle)) :
        \A k \in 1..Len(needle) : hay[i + k] = needle[k]

\* Python text.split(" | "): the segments between SEP tokens
RECURSIVE Split(_)
Split(toks) ==
    IF \A i \in 1..Len(toks) : toks[i] # SEP THEN <<toks>>
    ELSE LET p == CHOOSE i \in 1..Len(toks) :
                      toks[i] = SEP /\ \A k \in 1..(i - 1) : toks[k] # SEP
         IN <<SubSeq(toks, 1, p - 1)>> \o Split(SubSeq(toks, p + 1, Len(toks)))

NumSegments(toks) == Len(Split(toks))

\* date.isoformat() and strptime(..., "%Y-%m-%d") over the modelled days
DateStrs == <<"2024-01-01", "2024-01-02", "2024-01-03", "2024-01-04",
              "2024-01-05", "2024-01-06", "2024-01-07", "2024-01-08",
              "2024-01-09", "2024-01-10", "2024-01-11", "2024-01-12">>
IsoFormat(d) == DateStrs[d + 1]
IsDate(tok) == \E i \in 1..Len(DateStrs) : DateStrs[i] = tok
ParseDate(tok) == (CHOOSE i \in 1..Len(DateStrs) : DateStrs[i] = tok) - 1

VARIABLES today, jobs, nextIdx, audit,
          sUser, sPage, sTag, jobInput, confirmDelete, editMode, selJob, ev,
          ppmData, confirmEditPpm, objects, renameLog, rq, ui, flt, login, wiz

vars == <<today, jobs, nextIdx, audit,
          sUser, sPage, sTag, jobInput, confirmDelete, editMode, selJob, ev,
          ppmData, confirmEditPpm, objects, renameLog, rq, ui, flt, login, wiz>>

\* st.session_state of the job pages
sessVars == <<sUser, sPage, sTag, jobInput, confirmDelete, editMode, selJob>>
\* st.session_state of the PM route edit form
ppmVars == <<ppmData, confirmEditPpm>>
\* the objects table
tagVars == <<objects, renameLog>>
\* a retry wrapper in progress, what its caller shows, and the filter keys
\* of st.session_state
retryVars == <<rq, ui, flt>>

NoJob == [job_indx |-> 0]
\* init_job_session_state: the wizard keys of a fresh st.session_state
NoTemp == [Object_Tag |-> "", wo_number |-> "", job_description |-> "",
           status |-> "", performed_action |-> ""]
NoWizard == [show |-> FALSE, open |-> FALSE, step |-> 1, temp |-> NoTemp,
             error |-> "", last |-> NoTemp]
NoData == [ppm |-> ""]
NoAudit == [n |-> -1, zero_rows |-> FALSE]
Idx == 1..NIdx

Exists(j) == j \in Idx /\ jobs[j] # NoJob

(***************************************************************************)
(* auth.get_user_info and the permission gate                              *)
(***************************************************************************)
HasRow(u) == u \in DOMAIN UsersTable
IsAdmin(u) == HasRow(u) /\ UsersTable[u] # 0
\* user_info.get("username", "").lower()
CurrentUser(u) == IF HasRow(u) THEN Lower(Chars(u)) ELSE <<>>

\* registered_by.split(" | ")[0].strip() if registered_by else ""
FirstSegment(toks) == IF toks = <<>> THEN <<>> ELSE Split(toks)[1]

Within7DaysLt(regDate, day) ==
    LET f == FirstSegment(regDate)
    IN f # <<>> /\ IsDate(f[1]) /\ day - ParseDate(f[1]) < 7

Within7Days(regDate, day) ==
    LET f == FirstSegment(regDate)
    IN f # <<>> /\ IsDate(f[1]) /\ day - ParseDate(f[1]) <= 7

SameUser(u, regBy) == IsSubstr(CurrentUser(u), Lower(Text(FirstSegment(regBy))))

EditEnabled(u, job, day) ==
    IsAdmin(u) \/ (SameUser(u, job.registered_by) /\ Within7Days(job.registered_date, day))

(***************************************************************************)
(* Session state of one browser session on a job page.  A page is opened   *)
(* through a link carrying ?username=...; opening starts a fresh           *)
(* st.session_state.                                                       *)
(***************************************************************************)
Pages == {"daily", "object"}
EditUsers == {"ali", "bo"}
\* the ?tag= of the Object Details page
ActiveTag == "T1"
NoTag == "-"
NoUser == "-"

\* the last run: the widget that fired, the session, the job index typed
\* into the page and the edit_enabled the run computed for it
Event(op, s, j, gate) == [op |-> op, sess |-> s, indx |-> j, gate |-> gate]

\* the record the page shows for the typed job index (selected_job)
Shown(s, j) ==
    /\ sPage[s] \in Pages
    /\ j # 0
    /\ Exists(j)
    /\ sPage[s] = "object" => jobs[j].Object_Tag = sTag[s]

\* edit_enabled as computed by the run, "none" when no record is shown
Gate(s, j) ==
    IF ~Shown(s, j) THEN "none"
    ELSE IF EditEnabled(sUser[s], jobs[j], today) THEN "yes" ELSE "no"

\* job_form.save_job_to_db: the row an INSERT stores under index j
InsertedRow(j, u, tag, desc, wo, type, day) ==
    [job_indx |-> j, date |-> IsoFormat(day), Object_Tag |-> tag,
     job_description |-> desc, wo_number |-> wo, job_type |-> type,
     registered_by |-> <<u, PC_USER>>,
     registered_date |-> <<IsoFormat(day)>>]

InsertedAudit(u, day) ==
    [n |-> 0, by0 |-> <<u, PC_USER>>, day0 |-> day, zero_rows |-> FALSE]

SessionsClosed ==
    /\ sUser = [s \in Sessions |-> NoUser]
    /\ sPage = [s \in Sessions |-> "closed"]
    /\ sTag = [s \in Sessions |-> NoTag]
    /\ jobInput = [s \in Sessions |-> 0]
    /\ confirmDelete = [s \in Sessions |-> FALSE]
    /\ editMode = [s \in Sessions |-> FALSE]
    /\ selJob = [s \in Sessions |-> NoJob]
    /\ ev = Event("init", "-", 0, "none")
    /\ ppmData = [s \in Sessions |-> NoData]
    /\ confirmEditPpm = [s \in Sessions |-> FALSE]
    /\ login = [s \in Sessions |-> NoUser]
    /\ wiz = [s \in Sessions |-> NoWizard]

\* The filter keys of st.session_state as render_filter_and_query
\* initializes them.  Dates are day numbers counted from 1970-01-01 (ISO
\* date texts compare as their day numbers), NoDate is None; the text
\* filters are sequences of characters.  applied_from and applied_to
\* remember the From and To dates of the last Apply.
NoDate == -1
Epoch == 0
DefaultDays == 7
DefaultFilter(day) ==
    [date_from |-> day - DefaultDays, date_to |-> day,
     user_set_from_date |-> FALSE, user_set_to_date |-> FALSE,
     recent_days |-> "",
     job_type |-> "All", department_filter |-> "All",
     wo_filter |-> <<>>, permit_filter |-> <<>>, keyword_filter |-> <<>>,
     tag_filter |-> <<>>, actual_start_filter |-> NoDate,
     father_tag_filter |-> <<>>, unit_filter |-> <<>>, train_filter |-> <<>>,
     applied_from |-> NoDate, applied_to |-> NoDate]

\* the parts of the state a specification does not exercise
NoRename == [old |-> "", new |-> "", done |-> FALSE]
NoObjects == objects = {} /\ renameLog = NoRename
IdleRq == [wrapper |-> "-", op |-> "-", max |-> 0, attempt |-> 0, execs |-> 0,
           sleeps |-> 0, locked |-> 0, status |-> "idle", value |-> FALSE,
           err |-> "none", row |-> NoJob]
NoUi == [msg |-> "none", total |-> 0, exhausted |-> {}, rows |-> {}]
NoRetry == rq = IdleRq /\ ui = NoUi /\ flt = DefaultFilter(0)

\* a job_reports table holding one CM report, nobody logged in
Init ==
    /\ today = 0
    /\ \E u \in EditUsers :
         /\ jobs = [j \in Idx |-> IF j = 1
                       THEN InsertedRow(1, u, ActiveTag, "d1", "w1", "CM", 0)
                       ELSE NoJob]
         /\ audit = [j \in Idx |-> IF j = 1 THEN InsertedAudit(u, 0) ELSE NoAudit]
    /\ nextIdx = 2
    /\ SessionsClosed
    /\ NoObjects
    /\ NoRetry

\* the clock: datetime.today().date()
Tick(limit) ==
    /\ UNCHANGED <<ppmVars, tagVars, retryVars>>
    /\ today < limit
    /\ today' = today + 1
    /\ ev' = Event("tick", "-", 0, "none")
    /\ UNCHANGED <<jobs, nextIdx, audit, sessVars, login, wiz>>

OpenPage(s, u, p) ==
    /\ UNCHANGED <<ppmVars, tagVars, retryVars>>
    /\ sUser' = [sUser EXCEPT ![s] = u]
    /\ sPage' = [sPage EXCEPT ![s] = p]
    /\ sTag' = [sTag EXCEPT ![s] = IF p = "object" THEN ActiveTag ELSE NoTag]
    /\ jobInput' = [jobInput EXCEPT ![s] = 0]
    /\ confirmDelete' = [confirmDelete EXCEPT ![s] = FALSE]
    /\ editMode' = [editMode EXCEPT ![s] = FALSE]
    /\ selJob' = [selJob EXCEPT ![s] = NoJob]
    /\ ev' = Event("open", s, 0, "none")
    /\ UNCHANGED <<today, login, wiz, jobs, nextIdx, audit>>

\* typing a job index into the text input reruns the page
EnterJobIndex(s, j) ==
    /\ UNCHANGED <<ppmVars, tagVars, retryVars>>
    /\ sPage[s] \in Pages
    /\ j # jobInput[s]
    /\ jobInput' = [jobInput EXCEPT ![s] = j]
    /\ ev' = Event("view", s, j, Gate(s, j))
    /\ UNCHANGED <<today, login, wiz, jobs, nextIdx, audit, sUser, sPage, sTag,
                   confirmDelete, editMode, selJob>>

PressRemove(s) ==
    /\ UNCHANGED <<ppmVars, tagVars, retryVars>>
    /\ Gate(s, jobInput[s]) = "yes"
    /\ confirmDelete' = [confirmDelete EXCEPT ![s] = TRUE]
    /\ ev' = Event("remove", s, jobInput[s], Gate(s, jobInput[s]))
    /\ UNCHANGED <<today, login, wiz, jobs, nextIdx, audit, sUser, sPage, sTag,
                   jobInput, editMode, selJob>>

\* "Yes, delete": DELETE FROM job_reports WHERE job_indx = job_id
PressYesDelete(s, ok) ==
    /\ UNCHANGED <<ppmVars, tagVars, retryVars>>
    /\ Shown(s, jobInput[s])
    /\ confirmDelete[s]
    /\ IF ok
       THEN /\ jobs' = [jobs EXCEPT ![jobInput[s]] = NoJob]
            /\ confirmDelete' = [confirmDelete EXCEPT ![s] = FALSE]
            /\ ev' = Event("delete", s, jobInput[s], Gate(s, jobInput[s]))
       ELSE /\ jobs' = jobs
            /\ confirmDelete' = [confirmDelete EXCEPT ![s] = (sPage[s] = "daily")]
            /\ ev' = Event("delete_failed", s, jobInput[s], Gate(s, jobInput[s]))
    /\ UNCHANGED <<today, login, wiz, nextIdx, audit, sUser, sPage, sTag, jobInput, editMode, selJob>>

PressCancelDelete(s) ==
    /\ UNCHANGED <<ppmVars, tagVars, retryVars>>
    /\ Shown(s, jobInput[s])
    /\ confirmDelete[s]
    /\ confirmDelete' = [confirmDelete EXCEPT ![s] = FALSE]
    /\ ev' = Event("cancel_delete", s, jobInput[s], Gate(s, jobInput[s]))
    /\ UNCHANGED <<today, login, wiz, jobs, nextIdx, audit, sUser, sPage, sTag,
                   jobInput, editMode, selJob>>

PressEdit(s) ==
    /\ UNCHANGED <<ppmVars, tagVars, retryVars>>
    /\ Gate(s, jobInput[s]) = "yes"
    /\ ~editMode[s]
    /\ editMode' = [editMode EXCEPT ![s] = TRUE]
    /\ selJob' = [selJob EXCEPT ![s] = jobs[jobInput[s]]]
    /\ ev' = Event("edit", s, jobInput[s], Gate(s, jobInput[s]))
    /\ UNCHANGED <<today, login, wiz, jobs, nextIdx, audit, sUser, sPage, sTag,
                   jobInput, confirmDelete>>

PressCancelEdit(s) ==
    /\ UNCHANGED <<ppmVars, tagVars, retryVars>>
    /\ Gate(s, jobInput[s]) = "yes"
    /\ editMode[s]
    /\ editMode' = [editMode EXCEPT ![s] = FALSE]
    /\ selJob' = [selJob EXCEPT ![s] = NoJob]
    /\ ev' = Event("cancel_edit", s, jobInput[s], Gate(s, jobInput[s]))
    /\ UNCHANGED <<today, login, wiz, jobs, nextIdx, audit, sUser, sPage, sTag,
                   jobInput, confirmDelete>>

(***************************************************************************)
(* job_edit_form.render_edit_job_form: the form is rendered whenever       *)
(* edit_mode is set, for the job the session stored when Edit was pressed. *)
(***************************************************************************)
\* old + " | " unless old is empty or already ends with " | "
WithSep(old) ==
    IF old # <<>> /\ old[Len(old)] # SEP THEN Append(old, SEP) ELSE old

NewRegisteredBy(job, u) == WithSep(job.registered_by) \o <<u, PC_USER, MODIFIER>>
NewRegisteredDate(job, day) == WithSep(job.registered_date) \o <<IsoFormat(day), MODIFIED>>

\* a save that would append to the stored row's trail instead of the loaded one
EditUpdateRowMerged(row, job, u, desc, day) ==
    [row EXCEPT !.date = job.date,
                !.job_description = desc,
                !.wo_number = job.wo_number,
                !.registered_by = NewRegisteredBy(row, u),
                !.registered_date = NewRegisteredDate(row, day)]

\* the UPDATE statement of the form: every column but Object_Tag and job_type
EditUpdateRow(row, job, u, desc, day) ==
    [row EXCEPT !.date = job.date,
                !.job_description = desc,
                !.wo_number = job.wo_number,
                !.registered_by = NewRegisteredBy(job, u),
                !.registered_date = NewRegisteredDate(job, day)]

\* "Save Changes"; ok = FALSE is sqlite3 raising (database is locked)
EditSave(s, desc, ok) ==
    /\ UNCHANGED <<ppmVars, tagVars, retryVars>>
    /\ sPage[s] \in Pages
    /\ editMode[s]
    /\ selJob[s] # NoJob
    /\ LET j == selJob[s].job_indx IN
       IF ok
       THEN /\ Exists(j) => audit[j].n < MaxUpdates
            /\ jobs' = IF Exists(j)
                       THEN [jobs EXCEPT ![j] =
                               EditUpdateRow(jobs[j], selJob[s], sUser[s], desc, today)]
                       ELSE jobs
            /\ audit' = IF Exists(j)
                        THEN [audit EXCEPT ![j].n = @ + 1]
                        ELSE audit
            /\ editMode' = [editMode EXCEPT ![s] = FALSE]
            /\ selJob' = [selJob EXCEPT ![s] = NoJob]
            /\ ev' = Event("save", s, jobInput[s], Gate(s, jobInput[s]))
       ELSE /\ ev' = Event("save_failed", s, jobInput[s], Gate(s, jobInput[s]))
            /\ UNCHANGED <<jobs, audit, editMode, selJob>>
    /\ UNCHANGED <<today, login, wiz, nextIdx, sUser, sPage, sTag, jobInput, confirmDelete>>

\* the form's Cancel button
EditCancel(s) ==
    /\ UNCHANGED <<ppmVars, tagVars, retryVars>>
    /\ sPage[s] \in Pages
    /\ editMode[s]
    /\ selJob[s] # NoJob
    /\ editMode' = [editMode EXCEPT ![s] = FALSE]
    /\ selJob' = [selJob EXCEPT ![s] = NoJob]
    /\ ev' = Event("form_cancel", s, jobInput[s], Gate(s, jobInput[s]))
    /\ UNCHANGED <<today, login, wiz, jobs, nextIdx, audit, sUser, sPage, sTag,
                   jobInput, confirmDelete>>

Next ==
    \/ \E s \in Sessions, u \in EditUsers, p \in Pages : OpenPage(s, u, p)
    \/ \E s \in Sessions, j \in 0..1 : EnterJobIndex(s, j)
    \/ \E s \in Sessions : PressEdit(s)
    \/ \E s \in Sessions : PressCancelEdit(s)
    \/ \E s \in Sessions, desc \in Descs, ok \in BOOLEAN : EditSave(s, desc, ok)
    \/ \E s \in Sessions : EditCancel(s)

Spec == Init /\ [][Next]_vars

(***************************************************************************)
(* The permission gate over time: one browser session, a job_reports table *)
(* that already holds two reports registered on day 0 (the first possibly  *)
(* edited once by an admin), and the clock.                                *)
(***************************************************************************)
GateSession == "s1"

InitGate ==
    /\ today = 0
    /\ \E u \in UserNames, edited \in BOOLEAN, t2 \in Tags :
         LET r1 == InsertedRow(1, u, ActiveTag, "d1", "w1", "CM", 0)
             r2 == InsertedRow(2, "bo", t2, "d1", "w1", "CM", 0)
         IN /\ jobs = [j \in Idx |->
                         IF j = 1
                         THEN (IF edited THEN EditUpdateRow(r1, r1, "bo", "d2", 0) ELSE r1)
                         ELSE IF j = 2 THEN r2 ELSE NoJob]
            /\ audit = [j \in Idx |->
                         IF j = 1
                         THEN [InsertedAudit(u, 0) EXCEPT !.n = IF edited THEN 1 ELSE 0]
                         ELSE IF j = 2 THEN InsertedAudit("bo", 0) ELSE NoAudit]
    /\ nextIdx = 3
    /\ SessionsClosed
    /\ NoObjects
    /\ NoRetry

NextGate ==
    \/ Tick(MaxDay)
    \/ \E u \in UserNames, p \in Pages : OpenPage(GateSession, u, p)
    \/ \E j \in 0..2 : EnterJobIndex(GateSession, j)
    \/ PressRemove(GateSession)
    \/ \E ok \in BOOLEAN : PressYesDelete(GateSession, ok)
    \/ PressCancelDelete(GateSession)
    \/ PressEdit(GateSession)
    \/ PressCancelEdit(GateSession)
    \/ EditCancel(GateSession)

SpecGate == InitGate /\ [][NextGate]_vars

(***************************************************************************)
(* Properties of the permission gate and of the delete confirmation        *)
(***************************************************************************)
\* the job's original registrant and age, from the insert itself
Registrant(u, j) == audit[j].by0[1] = u
Age(j) == today - audit[j].day0
NameInFirstSegment(u, job) ==
    IsSubstr(Lower(Chars(u)), Lower(Text(FirstSegment(job.registered_by))))

\* C1: a non-admin session's confirmed delete removes a record only when
\* the permission gate holds for that session and record at that moment.
C1_DeleteOnlyWhenGateHolds ==
    [][\A j \in Idx :
         (Exists(j) /\ jobs'[j] = NoJob /\ ~IsAdmin(sUser[ev'.sess]))
            => EditEnabled(sUser[ev'.sess], jobs[j], today)]_vars

\* C2 as stated: no Remove or Edit by a non-admin original registrant is
\* accepted exactly 7 days after the original registration date.
C2_RejectedAtDay7 ==
    ~(/\ ev.op \in {"remove", "edit"}
      /\ Exists(ev.indx)
      /\ ~IsAdmin(sUser[ev.sess])
      /\ Registrant(sUser[ev.sess], ev.indx)
      /\ Age(ev.indx) = 7)

\* C2 amended: whenever a run shows a record, an admin has the gate open;
\* a non-admin original registrant has it open at 7 days or fewer after the
\* original registration date (so at 6 and at 7) and closed from 8 days on.
C2_GateBoundary ==
    (ev.gate # "none" /\ ev.op # "delete" /\ Exists(ev.indx)) =>
        LET u == sUser[ev.sess] IN
        /\ IsAdmin(u) => ev.gate = "yes"
        /\ (~IsAdmin(u) /\ Registrant(u, ev.indx)) =>
              (ev.gate = "yes" <=> Age(ev.indx) <= 7)

\* a non-admin registrant's Remove or Edit accepted at exactly 7 days
C2_Witness ==
    /\ ev.op \in {"remove", "edit"}
    /\ Exists(ev.indx)
    /\ ~IsAdmin(sUser[ev.sess])
    /\ Registrant(sUser[ev.sess], ev.indx)
    /\ Age(ev.indx) = 7

\* C4: a non-admin session gets editing or deletion enabled only if its
\* lower-cased username occurs in the lower-cased first registrant segment;
\* in particular a username without a users row never gets it enabled.
C4_EnabledOnlyOnNameMatch ==
    (ev.gate = "yes" /\ ev.op # "delete" /\ Exists(ev.indx) /\ ~IsAdmin(sUser[ev.sess]))
        => NameInFirstSegment(sUser[ev.sess], jobs[ev.indx])

(***************************************************************************)
(* Properties of the audit trail under the single-job edit form            *)
(***************************************************************************)
IsPrefix(a, b) == Len(a) <= Len(b) /\ SubSeq(b, 1, Len(a)) = a

\* C5: after N committed updates registered_by and registered_date each
\* hold N+1 segments, and the first segment of each is the inserted one.
C5_SegmentsCountUpdates ==
    \A j \in Idx : Exists(j) =>
        /\ NumSegments(jobs[j].registered_by) = audit[j].n + 1
        /\ NumSegments(jobs[j].registered_date) = audit[j].n + 1
        /\ FirstSegment(jobs[j].registered_by) = audit[j].by0
        /\ FirstSegment(jobs[j].registered_date) = <<IsoFormat(audit[j].day0)>>

\* the row a committed save of session s stores, from the job as s loaded it
SavedRow(s, j, desc) ==
    [job_indx |-> j,
     date |-> selJob[s].date,
     Object_Tag |-> jobs[j].Object_Tag,
     job_type |-> jobs[j].job_type,
     job_description |-> desc,
     wo_number |-> selJob[s].wo_number,
     registered_by |-> selJob[s].registered_by \o <<SEP, sUser[s], PC_USER, MODIFIER>>,
     registered_date |-> selJob[s].registered_date \o <<SEP, IsoFormat(today), MODIFIED>>]

\* C7: every save of the edit form commits whatever has happened to the row
\* since the session loaded it, and the stored row is then exactly what
\* that save wrote from its own load: an earlier save's description and
\* audit suffix are gone.
C7_LastWriterWins ==
    [][\A s \in Sessions :
         (ev'.op = "save" /\ ev'.sess = s /\ Exists(selJob[s].job_indx)) =>
            \E desc \in Descs :
               jobs'[selJob[s].job_indx] = SavedRow(s, selJob[s].job_indx, desc)]_vars

\* two saves committed, the second from a load older than the first save:
\* the row carries one modifier segment, not two
C7_Witness ==
    /\ ev.op = "save"
    /\ Exists(1)
    /\ audit[1].n = 2
    /\ NumSegments(jobs[1].registered_by) = 2

(***************************************************************************)
(* PPM_edit_form: the PM route edit form of the route details page.  One   *)
(* route with the tags RouteTags; PM reports carry the PPM number in       *)
(* wo_number.                                                              *)
(***************************************************************************)
PpmDays == 1
RouteTags == <<"T1", "T2">>
RouteTagSet == {RouteTags[i] : i \in 1..Len(RouteTags)}
PpmNumber == "w1"
PpmSession == "s1"
OffDesc(d) == IF d = "d1" THEN "Off - d1" ELSE "Off - d2"

\* ORDER BY date DESC, rowid DESC
Before(a, b) ==
    \/ ParseDate(a.date) > ParseDate(b.date)
    \/ a.date = b.date /\ a.job_indx > b.job_indx

\* get_ppm_jobs_for_route: the PM rows of the PPM number on the route's tags
PpmRows(ppm) ==
    {jobs[j] : j \in {k \in Idx : /\ Exists(k)
                                   /\ jobs[k].wo_number = ppm
                                   /\ jobs[k].Object_Tag \in RouteTagSet
                                   /\ jobs[k].job_type = "PM"}}

FirstOf(rows) == CHOOSE r \in rows : \A q \in rows \ {r} : Before(r, q)

JobsByTag(ppm) ==
    [t \in RouteTagSet |->
        LET rows == {r \in PpmRows(ppm) : r.Object_Tag = t}
        IN IF rows = {} THEN NoJob ELSE FirstOf(rows)]

\* edit_enabled of the form, from the global_info the session loaded
PpmGate(s) ==
    IF ppmData[s] = NoData THEN "none"
    ELSE IF EditEnabled(sUser[s], ppmData[s].global, today) THEN "yes" ELSE "no"

OpenRoute(s, u) ==
    /\ sUser' = [sUser EXCEPT ![s] = u]
    /\ sPage' = [sPage EXCEPT ![s] = "route"]
    /\ ppmData' = [ppmData EXCEPT ![s] = NoData]
    /\ confirmEditPpm' = [confirmEditPpm EXCEPT ![s] = FALSE]
    /\ ev' = Event("open_route", s, 0, "none")
    /\ UNCHANGED <<today, login, wiz, jobs, nextIdx, audit, sTag, jobInput, confirmDelete,
                   editMode, selJob, tagVars, retryVars>>

\* "Load PPM"; found = FALSE is the read giving up on a locked database
LoadPPM(s, found) ==
    /\ sPage[s] = "route"
    /\ ppmData' = [ppmData EXCEPT ![s] =
                      IF found /\ PpmRows(PpmNumber) # {}
                      THEN [ppm |-> PpmNumber,
                            jobs_by_tag |-> JobsByTag(PpmNumber),
                            global |-> FirstOf(PpmRows(PpmNumber))]
                      ELSE NoData]
    /\ ev' = Event("load_ppm", s, 0, "none")
    /\ UNCHANGED <<today, login, wiz, jobs, nextIdx, audit, sessVars, confirmEditPpm,
                   tagVars, retryVars>>

\* "Save Edited Jobs"
PressSaveEdited(s) ==
    /\ sPage[s] = "route"
    /\ PpmGate(s) = "yes"
    /\ confirmEditPpm' = [confirmEditPpm EXCEPT ![s] = TRUE]
    /\ ev' = Event("save_edited", s, 0, PpmGate(s))
    /\ UNCHANGED <<today, login, wiz, jobs, nextIdx, audit, sessVars, ppmData, tagVars, retryVars>>

\* the row dictionary the dialog builds for one tag
PpmRow(s, tag, descText) ==
    [date |-> ppmData[s].global.date,
     Object_Tag |-> tag,
     job_description |-> descText,
     wo_number |-> ppmData[s].ppm,
     job_type |-> "PM",
     registered_by |-> <<sUser[s], PC_USER>>,
     registered_date |-> <<IsoFormat(today)>>]

\* update_job_in_db: UPDATE ... WHERE job_indx = ?, every column from row
update_job_in_db(tbl, j, row) ==
    IF j \in Idx /\ tbl[j] # NoJob
    THEN [tbl EXCEPT ![j] = row @@ [job_indx |-> j]]
    ELSE tbl

\* delete_job_by_indx: DELETE ... WHERE job_indx = ?
delete_job_or_all(tbl, j) ==
    IF j \in Idx /\ tbl[j] # NoJob THEN [tbl EXCEPT ![j] = NoJob]
    ELSE [i \in DOMAIN tbl |-> NoJob]
delete_job_by_indx(tbl, j) ==
    IF j \in Idx THEN [tbl EXCEPT ![j] = NoJob] ELSE tbl

\* the body of the loop `for tag in tags` for the i-th tag, on the state
\* st = [jobs, audit, nextIdx, full] left by the tags before it
PpmStep(st, s, i, checked, desc, ok) ==
    LET tag == RouteTags[i]
        existing == ppmData[s].jobs_by_tag[tag]
        descText == IF ~checked[tag] /\ desc[tag] # "" THEN OffDesc(desc[tag])
                    ELSE desc[tag]
        row == PpmRow(s, tag, descText)
    IN IF existing # NoJob /\ ~checked[tag]
       THEN IF ok[tag]
            THEN [st EXCEPT
                    !.jobs = delete_job_by_indx(st.jobs, existing.job_indx),
                    !.audit = IF st.jobs[existing.job_indx] = NoJob
                              THEN [st.audit EXCEPT ![existing.job_indx].zero_rows = TRUE]
                              ELSE st.audit]
            ELSE st
       ELSE IF ~(checked[tag] \/ desc[tag] # "")
       THEN st
       ELSE IF existing # NoJob
       THEN IF ok[tag]
            THEN [st EXCEPT
                    !.jobs = update_job_in_db(st.jobs, existing.job_indx, row),
                    !.audit = IF st.jobs[existing.job_indx] # NoJob
                              THEN [st.audit EXCEPT ![existing.job_indx].n = @ + 1]
                              ELSE st.audit]
            ELSE st
       ELSE IF ~ok[tag]
       THEN st
       ELSE IF st.nextIdx > NIdx
       THEN [st EXCEPT !.full = TRUE]
       ELSE [st EXCEPT
               !.jobs = [st.jobs EXCEPT ![st.nextIdx] =
                           row @@ [job_indx |-> st.nextIdx]],
               !.audit = [st.audit EXCEPT ![st.nextIdx] = InsertedAudit(sUser[s], today)],
               !.nextIdx = st.nextIdx + 1]

RECURSIVE PpmLoop(_, _, _, _, _, _)
PpmLoop(st, s, i, checked, desc, ok) ==
    IF i > Len(RouteTags) THEN st
    ELSE PpmLoop(PpmStep(st, s, i, checked, desc, ok), s, i + 1, checked, desc, ok)

\* the dialog's "Yes, save changes"; ok[tag] = FALSE is the statement for
\* that tag failing (database error reported, loop continues)
edit_confirm_dialog(s, checked, desc, ok) ==
    /\ sPage[s] = "route"
    /\ PpmGate(s) = "yes"
    /\ confirmEditPpm[s]
    /\ LET st == PpmLoop([jobs |-> jobs, audit |-> audit, nextIdx |-> nextIdx,
                          full |-> FALSE], s, 1, checked, desc, ok)
       IN /\ ~st.full
          /\ \A j \in Idx : st.audit[j].n <= MaxUpdates
          /\ jobs' = st.jobs
          /\ audit' = st.audit
          /\ nextIdx' = st.nextIdx
    /\ confirmEditPpm' = [confirmEditPpm EXCEPT ![s] = FALSE]
    /\ ev' = Event("ppm_saved", s, 0, PpmGate(s))
    /\ UNCHANGED <<today, login, wiz, sessVars, ppmData, tagVars, retryVars>>

\* the dialog's Cancel
PpmCancel(s) ==
    /\ sPage[s] = "route"
    /\ PpmGate(s) = "yes"
    /\ confirmEditPpm[s]
    /\ confirmEditPpm' = [confirmEditPpm EXCEPT ![s] = FALSE]
    /\ ev' = Event("ppm_cancel", s, 0, PpmGate(s))
    /\ UNCHANGED <<today, login, wiz, jobs, nextIdx, audit, sessVars, ppmData, tagVars, retryVars>>

\* a job_reports table holding the PM report of one or both tags of the
\* route under the PPM number, registered on day 0
InitPPM ==
    /\ today = 0
    /\ \E u \in EditUsers, both \in BOOLEAN :
         /\ jobs = [j \in Idx |->
                      IF j = 1 THEN InsertedRow(1, u, "T1", "d1", PpmNumber, "PM", 0)
                      ELSE IF j = 2 /\ both
                           THEN InsertedRow(2, u, "T2", "d1", PpmNumber, "PM", 0)
                      ELSE NoJob]
         /\ audit = [j \in Idx |->
                      IF j = 1 \/ (j = 2 /\ both) THEN InsertedAudit(u, 0) ELSE NoAudit]
         /\ nextIdx = IF both THEN 3 ELSE 2
    /\ SessionsClosed
    /\ NoObjects
    /\ NoRetry

NextPPM ==
    \/ Tick(PpmDays)
    \/ \E u \in EditUsers : OpenRoute(PpmSession, u)
    \/ \E found \in BOOLEAN : LoadPPM(PpmSession, found)
    \/ PressSaveEdited(PpmSession)
    \/ \E checked \in [RouteTagSet -> BOOLEAN], desc \in [RouteTagSet -> {"", "d2"}],
          ok \in [RouteTagSet -> BOOLEAN] :
          edit_confirm_dialog(PpmSession, checked, desc, ok)
    \/ PpmCancel(PpmSession)

SpecPPM == InitPPM /\ [][NextPPM]_vars

\* C3: the first segment of registered_date is the date of the insert, after
\* any updates of the record.
C3_FirstDateIsInsertDate ==
    \A j \in Idx : Exists(j) =>
        FirstSegment(jobs[j].registered_date) = <<IsoFormat(audit[j].day0)>>

\* C6: an update leaves the previous registered_by and registered_date as
\* a prefix of the new values.
C6_HistoryOnlyAppended ==
    [][\A j \in Idx :
         (Exists(j) /\ jobs'[j] # NoJob) =>
            /\ IsPrefix(jobs[j].registered_by, jobs'[j].registered_by)
            /\ IsPrefix(jobs[j].registered_date, jobs'[j].registered_date)]_vars

(***************************************************************************)
(* tag_modification.edit_tag: the tag editor's Save Changes with its       *)
(* rename cascade.  objects is the set of rows of the objects table,       *)
(* Long_Tag the sequence of the segments between "/".                      *)
(***************************************************************************)
MaxSaves == 2
UnitCode == "U"
NewTagTexts == {"X", "x"}
Upper(t) == IF t = "x" THEN "X" ELSE t

ObjectTags == {o.Object_Tag : o \in objects}
ObjectRow(tag) == CHOOSE o \in objects : o.Object_Tag = tag
Segments(longTag) == {longTag[i] : i \in 1..Len(longTag)}
\* "/".join(new if p == old else p for p in parts)
ReplaceSegment(longTag, old, new) ==
    [i \in 1..Len(longTag) |-> IF longTag[i] = old THEN new ELSE longTag[i]]

\* UPDATE job_reports SET Object_Tag = new WHERE Object_Tag = old
RenameInJobs(tbl, old, new) ==
    [j \in Idx |-> IF tbl[j] # NoJob /\ tbl[j].Object_Tag = old
                   THEN [tbl[j] EXCEPT !.Object_Tag = new] ELSE tbl[j]]

\* UPDATE objects SET Father_Tag = new WHERE Father_Tag = old
RenameFathers(objs, old, new) ==
    {IF o.Father_Tag = old THEN [o EXCEPT !.Father_Tag = new] ELSE o : o \in objs}

\* UPDATE objects SET Long_Tag = updated_lt WHERE Object_Tag = obj, for the
\* rows (Object_Tag, Long_Tag) in `rows` as read before the main update
RenameLongTags(objs, rows, old, new) ==
    {IF \E r \in rows : r.Object_Tag = o.Object_Tag
     THEN [o EXCEPT !.Long_Tag =
             ReplaceSegment((CHOOSE r \in rows : r.Object_Tag = o.Object_Tag).Long_Tag,
                            old, new)]
     ELSE o : o \in objs}

\* "user (machine) | dd-mm-yyyy"
ModifiedEntry(u, day) == [user |-> u, machine |-> PC_USER, date |-> day]
\* old_mod + "\n" + new_entry if old_mod else new_entry
OnlyNewEntry(oldMod, entry) == <<entry>>
NewModified(oldMod, entry) == Append(oldMod, entry)

\* Save Changes of the editor opened on `tag`, with the form's values
\* tagText, father, longTag; failAt = k > 0: the k-th write stage raises
\* after its retries and the handler stops there.
edit_tag(s, tag, tagText, father, longTag, failAt, part) ==
    LET record == ObjectRow(tag)
        newTag == Upper(tagText)
        changes == {c \in {"Object_Tag", "Father_Tag", "Long_Tag"} :
                       \/ c = "Object_Tag" /\ tagText # record.Object_Tag
                       \/ c = "Father_Tag" /\ father # record.Father_Tag
                       \/ c = "Long_Tag" /\ longTag # record.Long_Tag}
        rename == "Object_Tag" \in changes /\ record.Object_Tag # newTag
        fatherRows == IF rename THEN {o \in objects : o.Father_Tag = tag} ELSE {}
        longRows == IF rename
                    THEN {[Object_Tag |-> o.Object_Tag, Long_Tag |-> o.Long_Tag] :
                             o \in {q \in objects : tag \in Segments(q.Long_Tag)}}
                    ELSE {}
        main == [Object_Tag |-> newTag, Father_Tag |-> father, Long_Tag |-> longTag,
                 Modified |-> NewModified(record.Modified, ModifiedEntry(sUser[s], today))]
        objs1 == (objects \ {record}) \cup {main}
        jobs2 == IF rename THEN RenameInJobs(jobs, tag, newTag) ELSE jobs
        objs3 == IF fatherRows # {} THEN RenameFathers(objs1, tag, newTag) ELSE objs1
        objs4 == RenameLongTags(objs3, longRows, tag, newTag)
        objs4part == RenameLongTags(objs3, part, tag, newTag)
        done(k) == failAt = 0 \/ k < failAt
    IN /\ sPage[s] = "tags"
       /\ tag \in ObjectTags
       /\ changes # {}
       /\ Len(record.Modified) < MaxSaves
       /\ part \subseteq longRows /\ (failAt = 4 => part # longRows)
       /\ failAt = 4 \/ part = {}
       /\ failAt = 4 => longRows # {}
       /\ failAt = 3 => fatherRows # {}
       /\ failAt = 2 => rename
       \* the new name is not the tag of another object
       /\ rename => newTag \notin ObjectTags
       /\ objects' = IF ~done(1) THEN objects
                      ELSE IF ~done(2) THEN objs1
                      ELSE IF ~done(3) THEN objs1
                      ELSE IF ~done(4) THEN objs4part
                      ELSE objs4
       /\ jobs' = IF done(2) THEN jobs2 ELSE jobs
       /\ renameLog' = IF rename
                        THEN [old |-> tag, new |-> newTag, done |-> failAt = 0]
                        ELSE NoRename
       /\ ev' = Event(IF failAt = 0 THEN "tag_saved" ELSE "tag_save_failed", s, 0, "none")
       /\ UNCHANGED <<today, login, wiz, nextIdx, audit, sessVars, ppmVars, retryVars>>

\* Define_New_Tag: a logged-in user opens the Tag Management page
OpenTags(s, u) ==
    /\ u \in UserNames
    /\ sUser' = [sUser EXCEPT ![s] = u]
    /\ sPage' = [sPage EXCEPT ![s] = "tags"]
    /\ ev' = Event("open_tags", s, 0, "none")
    /\ UNCHANGED <<today, login, wiz, jobs, nextIdx, audit, sTag, jobInput, confirmDelete,
                   editMode, selJob, ppmVars, tagVars, retryVars>>

TagSession == "s1"

\* objects A (top of its branch), B (child of A) and possibly C (child of
\* B), and two job reports on them
InitRename ==
    /\ today = 0
    /\ \E withC \in BOOLEAN, t1 \in {"A", "B"} :
         /\ objects =
               {[Object_Tag |-> "A", Father_Tag |-> UnitCode,
                 Long_Tag |-> <<UnitCode, "A">>, Modified |-> <<>>],
                [Object_Tag |-> "B", Father_Tag |-> "A",
                 Long_Tag |-> <<UnitCode, "A", "B">>, Modified |-> <<>>]}
               \cup (IF withC
                      THEN {[Object_Tag |-> "C", Father_Tag |-> "B",
                             Long_Tag |-> <<UnitCode, "A", "B", "C">>, Modified |-> <<>>]}
                      ELSE {})
         /\ jobs = [j \in Idx |->
                      IF j = 1 THEN InsertedRow(1, "ali", t1, "d1", "w1", "CM", 0)
                      ELSE IF j = 2 THEN InsertedRow(2, "bo", "B", "d1", "w1", "CM", 0)
                      ELSE NoJob]
    /\ audit = [j \in Idx |-> IF j = 1 THEN InsertedAudit("ali", 0)
                               ELSE IF j = 2 THEN InsertedAudit("bo", 0) ELSE NoAudit]
    /\ nextIdx = 3
    /\ renameLog = NoRename
    /\ SessionsClosed
    /\ NoRetry

LongTagTexts(tag, tagText) ==
    LET lt == ObjectRow(tag).Long_Tag
    IN {lt, ReplaceSegment(lt, tag, Upper(tagText))}

NextRename ==
    \/ \E s \in Sessions : OpenTags(s, IF s = TagSession THEN "bo" ELSE "ali")
    \/ \E s \in Sessions, tag \in ObjectTags :
         \E tagText \in NewTagTexts \cup {tag},
            father \in {ObjectRow(tag).Father_Tag, UnitCode}, failAt \in 0..4 :
         \E longTag \in LongTagTexts(tag, tagText),
            part \in IF failAt = 4
                     THEN SUBSET {[Object_Tag |-> o.Object_Tag, Long_Tag |-> o.Long_Tag] : o \in objects}
                     ELSE {{}} :
            edit_tag(s, tag, tagText, father, longTag, failAt, part)

SpecRename == InitRename /\ [][NextRename]_vars

\* C8: after a completed rename from T to T' no job report has Object_Tag T,
\* no Object has Father_Tag T and no Object's Long_Tag has T as a segment.
C8_NoReferenceToOldTag ==
    renameLog.done =>
        /\ \A j \in Idx : Exists(j) => jobs[j].Object_Tag # renameLog.old
        /\ \A o \in objects : o.Father_Tag # renameLog.old
        /\ \A o \in objects : renameLog.old \notin Segments(o.Long_Tag)

(***************************************************************************)
(* The retry wrappers around SQLite and their callers.  rq is the call in  *)
(* flight: attempt is the loop variable, execs the statements executed,    *)
(* sleeps the time.sleep calls, locked the "database is locked" failures.  *)
(* ui is what the page shows when the handler is over.                     *)
(***************************************************************************)
MaxAttempts == 3
DefaultAttempts == 3
TagAttempts == 3
PpmAttempts == 3
ReadAttempts == 5
FilterSaveAttempts == 6
PageLimit == 150
Outcomes == {"ok", "locked", "other"}
RetrySession == "s1"

RetryStart(wrapper, op, max, row) ==
    [wrapper |-> wrapper, op |-> op, max |-> max, attempt |-> 0, execs |-> 0,
     sleeps |-> 0, locked |-> 0,
     status |-> IF max = 0 THEN "returned" ELSE "run",
     value |-> FALSE, err |-> "none", row |-> row]

Executed(r, outcome) ==
    [r EXCEPT !.execs = @ + 1, !.locked = IF outcome = "locked" THEN @ + 1 ELSE @]

\* a writer that gives up quietly after the last locked attempt
write_query_quiet(r, outcome) ==
    IF outcome = "ok"
    THEN [Executed(r, outcome) EXCEPT !.status = "returned", !.value = TRUE]
    ELSE IF outcome = "locked"
    THEN [Executed(r, outcome) EXCEPT
             !.sleeps = @ + 1, !.attempt = @ + 1,
             !.status = IF r.attempt + 1 = r.max THEN "returned" ELSE "run"]
    ELSE [Executed(r, outcome) EXCEPT !.status = "raised", !.err = outcome]

\* job_form._write_query: one pass of the loop body
write_query(r, outcome) ==
    IF outcome = "ok"
    THEN [Executed(r, outcome) EXCEPT !.status = "returned", !.value = TRUE]
    ELSE IF outcome = "locked" /\ r.attempt < r.max - 1
    THEN [Executed(r, outcome) EXCEPT !.sleeps = @ + 1, !.attempt = @ + 1]
    ELSE [Executed(r, outcome) EXCEPT !.status = "raised", !.err = outcome]

\* tag_modification._write_query: one pass of the loop body
tag_write_query(r, outcome) ==
    IF outcome = "ok"
    THEN [Executed(r, outcome) EXCEPT !.status = "returned", !.value = TRUE]
    ELSE IF outcome = "locked" /\ r.attempt < TagAttempts - 1
    THEN [Executed(r, outcome) EXCEPT !.sleeps = @ + 1, !.attempt = @ + 1]
    ELSE [Executed(r, outcome) EXCEPT !.status = "raised", !.err = outcome]

\* a reader that treats every failure as a locked database
read_query_any(r, outcome) ==
    IF outcome = "ok"
    THEN [Executed(r, outcome) EXCEPT !.status = "returned", !.value = TRUE]
    ELSE [Executed(r, outcome) EXCEPT
             !.sleeps = @ + 1, !.attempt = @ + 1, !.err = outcome,
             !.status = IF r.attempt + 1 = r.max THEN "returned" ELSE "run"]

\* filter_section._read_query: one pass of the loop body; after the last
\* locked attempt the loop ends and an empty DataFrame is returned
read_query(r, outcome) ==
    IF outcome = "ok"
    THEN [Executed(r, outcome) EXCEPT !.status = "returned", !.value = TRUE]
    ELSE IF outcome = "locked"
    THEN [Executed(r, outcome) EXCEPT
             !.sleeps = @ + 1, !.attempt = @ + 1,
             !.status = IF r.attempt + 1 = r.max THEN "returned" ELSE "run"]
    ELSE [Executed(r, outcome) EXCEPT !.status = "raised", !.err = outcome]

\* filter_section.save_user_filter: one pass of the loop body; after the
\* last locked attempt the loop ends and False is returned
save_user_filter(r, outcome) ==
    IF outcome = "ok"
    THEN [Executed(r, outcome) EXCEPT !.status = "returned", !.value = TRUE]
    ELSE IF outcome = "locked"
    THEN [Executed(r, outcome) EXCEPT
             !.sleeps = @ + 1, !.attempt = @ + 1,
             !.status = IF r.attempt + 1 = r.max THEN "returned" ELSE "run"]
    ELSE [Executed(r, outcome) EXCEPT !.status = "raised", !.err = outcome]

\* PPM_edit_form.update_job_in_db: one pass of the loop body; a failure
\* that is not retried is reported with st.error and False is returned
update_retry(r, outcome) ==
    IF outcome = "ok"
    THEN [Executed(r, outcome) EXCEPT !.status = "returned", !.value = TRUE]
    ELSE IF outcome = "locked" /\ r.attempt < r.max - 1
    THEN [Executed(r, outcome) EXCEPT !.sleeps = @ + 1, !.attempt = @ + 1]
    ELSE [Executed(r, outcome) EXCEPT !.status = "returned", !.err = outcome]

RetryStep(r, outcome) ==
    CASE r.wrapper = "job_form" -> write_query(r, outcome)
      [] r.wrapper = "ppm_update" -> update_retry(r, outcome)
      [] r.wrapper = "tag_modification" -> tag_write_query(r, outcome)
      [] r.wrapper = "filter_read" -> read_query(r, outcome)
      [] r.wrapper = "filter_save" -> save_user_filter(r, outcome)

NoCall == rq.status # "run"

\* a direct call _write_query(sql, params, max_attempts = max)
CallWrite(max) ==
    /\ NoCall
    /\ rq' = RetryStart("job_form", "write", max, NoJob)
    /\ ui' = NoUi
    /\ ev' = Event("call_write", "-", 0, "none")
    /\ UNCHANGED <<today, login, wiz, jobs, nextIdx, audit, sessVars, ppmVars, tagVars, flt>>

\* job_form.save_job_to_db called by a form's Submit
save_job_to_db(s, tag, desc, wo, type) ==
    /\ NoCall
    /\ sPage[s] \in Pages
    /\ nextIdx <= NIdx
    /\ rq' = RetryStart("job_form", "insert", DefaultAttempts,
                         InsertedRow(nextIdx, sUser[s], tag, desc, wo, type, today))
    /\ ui' = NoUi
    /\ ev' = Event("submit", s, 0, "none")
    /\ UNCHANGED <<today, login, wiz, jobs, nextIdx, audit, sessVars, ppmVars, tagVars, flt>>

\* tag_modification: "Add Tag" with a tag that does not exist yet
AddTag(s, tagText) ==
    /\ NoCall
    /\ sPage[s] = "tags"
    /\ Upper(tagText) \notin ObjectTags
    /\ rq' = RetryStart("tag_modification", "add_tag", TagAttempts,
                         [Object_Tag |-> Upper(tagText), Father_Tag |-> "",
                          Long_Tag |-> <<>>, Modified |-> <<>>])
    /\ ui' = NoUi
    /\ ev' = Event("add_tag", s, 0, "none")
    /\ UNCHANGED <<today, login, wiz, jobs, nextIdx, audit, sessVars, ppmVars, tagVars, flt>>

\* PPM_edit_form.update_job_in_db called for the stored PM report j
UpdateJob(s, j, desc) ==
    /\ NoCall
    /\ sPage[s] \in Pages
    /\ Exists(j)
    /\ audit[j].n < MaxUpdates
    /\ rq' = RetryStart("ppm_update", "update", PpmAttempts,
                         InsertedRow(j, sUser[s], jobs[j].Object_Tag, desc,
                                     jobs[j].wo_number, jobs[j].job_type, today))
    /\ ui' = NoUi
    /\ ev' = Event("update", s, j, "none")
    /\ UNCHANGED <<today, login, wiz, jobs, nextIdx, audit, sessVars, ppmVars, tagVars, flt>>

\* filter_section: a run of the filter page, the count query first
FilterRun(s) ==
    /\ NoCall
    /\ sPage[s] = "daily"
    /\ rq' = RetryStart("filter_read", "count", ReadAttempts, NoJob)
    /\ ui' = NoUi
    /\ ev' = Event("filter", s, 0, "none")
    /\ UNCHANGED <<today, login, wiz, jobs, nextIdx, audit, sessVars, ppmVars, tagVars, flt>>

\* filter_section: confirmed "save as default" / "reset default"
SaveDefault(s, op) ==
    /\ NoCall
    /\ sPage[s] = "daily"
    /\ rq' = RetryStart("filter_save", op, FilterSaveAttempts, NoJob)
    /\ ui' = NoUi
    /\ ev' = Event(op, s, 0, "none")
    /\ UNCHANGED <<today, login, wiz, jobs, nextIdx, audit, sessVars, ppmVars, tagVars, flt>>

Matches == {j \in Idx : Exists(j)}

\* "Restore defaults to session": every key of default_filter is
\* overwritten; user_set_from_date and user_set_to_date are not among them
RestoredDefaults(f, day) ==
    [DefaultFilter(day) EXCEPT
        !.user_set_from_date = f.user_set_from_date,
        !.user_set_to_date = f.user_set_to_date,
        !.applied_from = f.applied_from,
        !.applied_to = f.applied_to]
Min(a, b) == IF a < b THEN a ELSE b

\* INSERT INTO job_reports (...) VALUES (...): the store assigns the next
\* job_indx and keeps every value as it was given
insert_or_replace(tbl, j, row) ==
    IF j > 1 THEN [tbl EXCEPT ![j - 1] = [row EXCEPT !.job_indx = j - 1]]
    ELSE [tbl EXCEPT ![j] = row]
insert_job_report(tbl, j, row) == [tbl EXCEPT ![j] = row]

\* one attempt of the call in flight and, when it was the last one, the
\* rest of the caller
Attempt(outcome) ==
    LET r == RetryStep(rq, outcome)
        over == r.status # "run"
        gaveUp == r.status = "returned" /\ ~r.value
    IN
    /\ rq.status = "run"
    /\ ev' = Event("attempt", "-", 0, "none")
    /\ rq' = IF rq.op = "count" /\ r.status = "returned"
              THEN RetryStart("filter_read", "data", ReadAttempts, NoJob)
              ELSE r
    /\ ui' =
         IF ~over THEN ui
         ELSE IF r.status = "raised"
         THEN [ui EXCEPT !.msg = IF rq.op = "write" THEN "raised" ELSE "error"]
         ELSE CASE rq.op = "write" -> [ui EXCEPT !.msg = "returned"]
                [] rq.op = "update" ->
                     [ui EXCEPT !.msg = IF r.value THEN "success" ELSE "error"]
                [] rq.op \in {"insert", "add_tag"} -> [ui EXCEPT !.msg = "success"]
                [] rq.op = "count" ->
                     [ui EXCEPT !.total = IF r.value THEN Min(Cardinality(Matches), PageLimit)
                                          ELSE 0,
                                !.exhausted = IF gaveUp THEN @ \cup {"count"} ELSE @]
                [] rq.op = "data" ->
                     [ui EXCEPT !.msg = IF r.value /\ Matches # {} THEN "records"
                                        ELSE "no_records",
                                !.exhausted = IF gaveUp THEN @ \cup {"data"} ELSE @]
                [] rq.op \in {"save_default", "reset_default"} ->
                     [ui EXCEPT !.msg = "success",
                                !.exhausted = IF gaveUp THEN @ \cup {rq.op} ELSE @]
    /\ IF rq.op = "insert" /\ r.status = "returned"
       THEN /\ jobs' = insert_job_report(jobs, nextIdx, rq.row)
            /\ audit' = [audit EXCEPT ![nextIdx] =
                             InsertedAudit(rq.row.registered_by[1], today)]
            /\ nextIdx' = nextIdx + 1
       ELSE IF rq.op = "update" /\ r.status = "returned" /\ r.value
       THEN /\ jobs' = update_job_in_db(jobs, rq.row.job_indx, rq.row)
            /\ audit' = [audit EXCEPT ![rq.row.job_indx].n = @ + 1]
            /\ nextIdx' = nextIdx
       ELSE UNCHANGED <<jobs, audit, nextIdx>>
    /\ IF rq.op = "add_tag" /\ r.status = "returned"
       THEN objects' = objects \cup {rq.row}
       ELSE UNCHANGED objects
    /\ flt' = IF rq.op = "reset_default" /\ r.status = "returned"
               THEN RestoredDefaults(flt, today)
               ELSE flt
    /\ UNCHANGED <<today, login, wiz, sessVars, ppmVars, renameLog>>

InitRetry ==
    /\ today = 0
    /\ \E u \in EditUsers :
         /\ jobs = [j \in Idx |-> IF j = 1 THEN InsertedRow(1, u, "T1", "d1", "w1", "CM", 0)
                                  ELSE NoJob]
         /\ audit = [j \in Idx |-> IF j = 1 THEN InsertedAudit(u, 0) ELSE NoAudit]
    /\ nextIdx = 2
    /\ SessionsClosed
    /\ NoObjects
    /\ NoRetry

NextRetry ==
    \/ \E u \in EditUsers : OpenPage(RetrySession, u, "daily")
    \/ OpenTags(RetrySession, "bo")
    \/ \E max \in 0..MaxAttempts : CallWrite(max)
    \/ \E tag \in Tags, desc \in Descs : save_job_to_db(RetrySession, tag, desc, "w1", "CM")
    \/ \E tagText \in NewTagTexts : AddTag(RetrySession, tagText)
    \/ UpdateJob(RetrySession, 1, "d2")
    \/ FilterRun(RetrySession)
    \/ \E op \in {"save_default", "reset_default"} : SaveDefault(RetrySession, op)
    \/ \E outcome \in Outcomes : Attempt(outcome)

SpecRetry == InitRetry /\ [][NextRetry]_vars

\* C9: a write wrapper executes its statement at most max_attempts times,
\* sleeps once after every locked attempt it retries, and a locked failure
\* of the final attempt is raised; save_job_to_db then reports the error
\* and stores nothing.
C9_WriteRetryBounded ==
    rq.wrapper \in {"job_form", "tag_modification"} =>
        /\ rq.execs <= rq.max
        /\ rq.status = "run" =>
              rq.execs < rq.max /\ rq.locked = rq.execs /\ rq.sleeps = rq.execs
        /\ rq.status = "returned" => (rq.max = 0 \/ rq.value)
        /\ (rq.max > 0 /\ rq.locked = rq.max) =>
              /\ rq.status = "raised" /\ rq.err = "locked"
              /\ rq.sleeps = rq.max - 1
              /\ rq.op = "insert" => (ui.msg = "error" /\ jobs[rq.row.job_indx] = NoJob)
        /\ (rq.status = "raised" /\ rq.err = "locked") => rq.execs = rq.max

\* save_job_to_db after three locked attempts
C9_Witness ==
    /\ rq.op = "insert"
    /\ rq.locked = DefaultAttempts
    /\ rq.sleeps = 2
    /\ rq.status = "raised"
    /\ ui.msg = "error"

\* C10: when every attempt of a filter-page operation (count read, data
\* read, save or reset of the default filter) failed on a locked database,
\* the user is shown an error.
C10_LockedShowsError ==
    (rq.status # "run" /\ ui.exhausted # {}) => ui.msg = "error"

\* C11: a failure other than "database is locked" ends the wrapper at that
\* attempt: nothing was slept for it, no further attempt is made, and the
\* caller gets the failure (an exception, or False from update_job_in_db),
\* never a success.
C11_OtherFailureNotRetried ==
    rq.err = "other" =>
        /\ rq.status \in {"raised", "returned"}
        /\ rq.status = "returned" => rq.wrapper = "ppm_update"
        /\ ~rq.value
        /\ rq.locked = rq.execs - 1
        /\ rq.sleeps = rq.locked
        /\ ui.msg \in {"error", "raised"}

\* the filter read hit a schema error on its second attempt
C11_Witness ==
    /\ rq.wrapper = "filter_read"
    /\ rq.err = "other"
    /\ rq.execs = 2
    /\ rq.sleeps = 1

(***************************************************************************)
(* The statements a committed mutation of job_reports sends on its         *)
(* connection.  Python's sqlite3 opens a deferred transaction ("BEGIN")    *)
(* by itself before an UPDATE or DELETE when the code did not begin one.   *)
(***************************************************************************)
MutationOps == {"save", "delete", "ppm_saved"}

Sql(e) ==
    CASE e.op = "save" -> <<"BEGIN", "UPDATE", "COMMIT">>
      [] e.op = "delete" -> <<"BEGIN", "DELETE", "COMMIT">>
      [] e.op = "ppm_saved" -> <<"BEGIN IMMEDIATE", "UPDATE", "COMMIT">>
      [] OTHER -> <<>>

\* C12: every mutation of job_reports begins an immediate transaction
\* before its statement and then commits.
C12_MutationsBeginImmediate ==
    ev.op \in MutationOps =>
        /\ Sql(ev)[1] = "BEGIN IMMEDIATE"
        /\ Sql(ev)[Len(Sql(ev))] = "COMMIT"

(***************************************************************************)
(* filter_section.render_filter_and_query: the filter form, the query it   *)
(* builds from st.session_state, and the result the page shows.  A job     *)
(* report here carries the columns the query reads; texts are sequences of *)
(* characters, dates are day numbers.                                      *)
(***************************************************************************)
MonthWindow == 30
YearWindow == 365

\* str.strip()
RECURSIVE StripLeft(_)
StripLeft(t) == IF t # <<>> /\ t[1] = " " THEN StripLeft(Tail(t)) ELSE t
RECURSIVE StripRight(_)
StripRight(t) ==
    IF t # <<>> /\ t[Len(t)] = " " THEN StripRight(SubSeq(t, 1, Len(t) - 1)) ELSE t
StripText(t) == StripRight(StripLeft(t))

\* str.split(",")
RECURSIVE SplitComma(_)
SplitComma(t) ==
    IF \A i \in 1..Len(t) : t[i] # "," THEN <<t>>
    ELSE LET p == CHOOSE i \in 1..Len(t) : t[i] = "," /\ \A k \in 1..(i - 1) : t[k] # ","
         IN <<SubSeq(t, 1, p - 1)>> \o SplitComma(SubSeq(t, p + 1, Len(t)))

\* [v.strip() for v in text.split(",") if v.strip()]
Items(t) ==
    LET parts == SplitComma(t)
    IN {StripText(parts[i]) : i \in {k \in 1..Len(parts) : StripText(parts[k]) # <<>>}}

\* column LIKE '%pat%' (SQLite LIKE ignores ASCII case)
Like(pat, text) == IsSubstr(Lower(pat), Lower(text))

\* the smart date logic: the inclusive range the query carries
RecentDays(text) ==
    CASE text = "3" -> 3
      [] text = "7" -> 7
      [] text = "10" -> 10
      [] OTHER -> DefaultDays
DateRange(f, day) ==
    IF f.user_set_from_date \/ f.user_set_to_date
    THEN <<IF f.user_set_from_date THEN f.date_from ELSE Epoch,
           IF f.user_set_to_date THEN f.date_to ELSE day>>
    ELSE <<day - RecentDays(f.recent_days), day>>

\* the comma-separated filters: a non-blank text without any item gives
\* "AND ()", which SQLite rejects
ListFilters == {"tag_filter", "father_tag_filter", "unit_filter", "train_filter"}
SqlValid(f) ==
    \A k \in ListFilters : StripText(f[k]) # <<>> => Items(f[k]) # {}

NoObject == [Object_Tag |-> <<>>]
\* FROM base b LEFT JOIN objects o ON o.Object_Tag = b.Object_Tag
Joined(tbl, objs, f) ==
    LET live == {j \in DOMAIN tbl : tbl[j] # NoJob}
        needed == \E k \in {"father_tag_filter", "unit_filter", "train_filter"} :
                     StripText(f[k]) # <<>>
    IN IF ~needed THEN {<<j, NoObject>> : j \in live}
       ELSE UNION {LET os == {o \in objs : o.Object_Tag = tbl[j].Object_Tag}
                   IN IF os = {} THEN {<<j, NoObject>>} ELSE {<<j, o>> : o \in os}
                   : j \in live}

\* the WHERE clause for one joined row
RowMatches(b, o, f, day) ==
    /\ b.date >= DateRange(f, day)[1]
    /\ b.date <= DateRange(f, day)[2]
    /\ f.job_type # "All" => b.job_type = f.job_type
    /\ f.department_filter # "All" => b.department = f.department_filter
    /\ StripText(f.wo_filter) # <<>> => Like(StripText(f.wo_filter), b.wo_number)
    /\ StripText(f.permit_filter) # <<>> => Like(StripText(f.permit_filter), b.permit_number)
    /\ StripText(f.keyword_filter) # <<>> =>
          \/ Like(StripText(f.keyword_filter), b.keywords)
          \/ Like(StripText(f.keyword_filter), b.job_description)
    /\ StripText(f.tag_filter) # <<>> =>
          \E t \in Items(f.tag_filter) : Like(t, b.Object_Tag)
    /\ f.actual_start_filter # NoDate => b.actual_start = f.actual_start_filter
    /\ StripText(f.father_tag_filter) # <<>> =>
          /\ o # NoObject
          /\ \E v \in Items(f.father_tag_filter) : o.Long_Tag = v \/ Like(v, o.Long_Tag)
    /\ StripText(f.unit_filter) # <<>> =>
          /\ o # NoObject
          /\ \E v \in Items(f.unit_filter) : o.Unit_Code = v
    /\ StripText(f.train_filter) # <<>> =>
          /\ o # NoObject
          /\ \E v \in Items(f.train_filter) : o.Train = v

Selected(tbl, objs, f, day) ==
    {p \in Joined(tbl, objs, f) : RowMatches(tbl[p[1]], p[2], f, day)}

\* ORDER BY b.date DESC, b.job_indx DESC LIMIT 150
EarlierByIndex(tbl, p, q) == p[1] > q[1]
Earlier(tbl, p, q) ==
    \/ tbl[p[1]].date > tbl[q[1]].date
    \/ tbl[p[1]].date = tbl[q[1]].date /\ p[1] > q[1]
Limited(tbl, sel) ==
    IF Cardinality(sel) <= PageLimit THEN sel
    ELSE {p \in sel : Cardinality({q \in sel : Earlier(tbl, q, p)}) < PageLimit}

\* the correlated subqueries Count_MTD and Count_YTD over base
CountWindowOpen(tbl, b, window) ==
    Cardinality({x \in DOMAIN tbl :
                    /\ tbl[x] # NoJob
                    /\ tbl[x].Object_Tag = b.Object_Tag
                    /\ tbl[x].date <= b.date
                    /\ tbl[x].date > b.date - window})
CountWindow(tbl, b, window) ==
    Cardinality({x \in DOMAIN tbl :
                    /\ tbl[x] # NoJob
                    /\ tbl[x].Object_Tag = b.Object_Tag
                    /\ tbl[x].date <= b.date
                    /\ tbl[x].date >= b.date - window})

\* what a run of the page shows: the count query is COUNT(*) over the
\* query with its LIMIT, the data query follows
QueryResult(tbl, objs, f, day) ==
    IF ~SqlValid(f)
    THEN [NoUi EXCEPT !.msg = "error"]
    ELSE LET rows == Limited(tbl, Selected(tbl, objs, f, day))
         IN [NoUi EXCEPT
               !.msg = IF rows = {} THEN "no_records" ELSE "records",
               !.total = Cardinality(rows),
               !.rows = {[job_indx |-> p[1],
                          Count_MTD |-> CountWindow(tbl, tbl[p[1]], MonthWindow),
                          Count_YTD |-> CountWindow(tbl, tbl[p[1]], YearWindow)]
                         : p \in rows}]

\* "Apply Filters": the widget values go to st.session_state
Applied(f, form) ==
    [f EXCEPT !.job_type = form.job_type,
              !.department_filter = form.department_filter,
              !.wo_filter = form.wo_filter,
              !.permit_filter = form.permit_filter,
              !.actual_start_filter = form.actual_start_filter,
              !.tag_filter = form.tag_filter,
              !.father_tag_filter = form.father_tag_filter,
              !.unit_filter = form.unit_filter,
              !.train_filter = form.train_filter,
              !.keyword_filter = form.keyword_filter,
              !.user_set_from_date = form.date_from # NoDate,
              !.user_set_to_date = form.date_to # NoDate,
              !.date_from = form.date_from,
              !.date_to = form.date_to,
              !.recent_days = form.recent_days,
              !.applied_from = form.date_from,
              !.applied_to = form.date_to]

\* s_recent.isdigit() and int(s_recent) > 0
ValidRecent(text) == text \in {"3", "7", "10"}
\* without a valid days-back value the session's recent_days becomes "7"
Normalized(f) ==
    IF ~(f.user_set_from_date \/ f.user_set_to_date) /\ ~ValidRecent(f.recent_days)
    THEN [f EXCEPT !.recent_days = "7"]
    ELSE f

Day0 == 400
FilterDays == 1
FilterSession == "s1"

\* the widgets as the form first shows them
DefaultForm ==
    [date_from |-> NoDate, date_to |-> NoDate, recent_days |-> "",
     job_type |-> "All", department_filter |-> "All",
     wo_filter |-> <<>>, permit_filter |-> <<>>, keyword_filter |-> <<>>,
     tag_filter |-> <<>>, actual_start_filter |-> NoDate,
     father_tag_filter |-> <<>>, unit_filter |-> <<>>, train_filter |-> <<>>]

DateFields == {"date_from", "date_to"}
PlainFields == {"job_type", "department_filter", "wo_filter", "permit_filter",
                "keyword_filter", "tag_filter", "actual_start_filter",
                "father_tag_filter", "unit_filter", "train_filter"}
FormFields == DateFields \cup PlainFields \cup {"recent_days"}

\* the non-empty values a user types into a widget
FormValues(a) ==
    CASE a = "date_from" -> {Day0 - YearWindow - 5}
      [] a = "date_to" -> {Day0 - 5}
      [] a = "recent_days" -> {"3", "x"}
      [] a = "job_type" -> {"CM"}
      [] a = "department_filter" -> {"Fix"}
      [] a = "wo_filter" -> {<<"w">>}
      [] a = "permit_filter" -> {<<"p">>}
      [] a = "keyword_filter" -> {<<"D">>}
      [] a = "tag_filter" -> {<<"a", ",", " ", "B">>, <<",">>}
      [] a = "actual_start_filter" -> {Day0}
      [] a = "father_tag_filter" -> {<<"U">>, <<"A">>}
      [] a = "unit_filter" -> {<<"U">>}
      [] a = "train_filter" -> {<<"x">>, <<" ", ",">>}

OneMoreOf(g, fields) ==
    UNION {{[g EXCEPT ![a] = v] : v \in FormValues(a)} :
              a \in {k \in fields : g[k] = DefaultForm[k]}}
Forms1 == OneMoreOf(DefaultForm, FormFields)
Forms2 == UNION {OneMoreOf(g, DateFields) : g \in Forms1}
AllForms == {DefaultForm} \cup Forms1 \cup Forms2

\* a fresh session opens the Daily Jobs page (no saved default filter)
OpenFilterPage(s, u) ==
    /\ sUser' = [sUser EXCEPT ![s] = u]
    /\ sPage' = [sPage EXCEPT ![s] = "daily"]
    /\ flt' = Normalized(DefaultFilter(today))
    /\ ui' = QueryResult(jobs, objects, flt', today)
    /\ ev' = Event("open_filter", s, 0, "none")
    /\ UNCHANGED <<today, login, wiz, jobs, nextIdx, audit, sTag, jobInput, confirmDelete,
                   editMode, selJob, ppmVars, tagVars, rq>>

\* "Apply Filters" and the query of the same run
ApplyFilters(s, form) ==
    /\ sPage[s] = "daily"
    /\ NoCall
    /\ flt' = Normalized(Applied(flt, form))
    /\ ui' = QueryResult(jobs, objects, flt', today)
    /\ ev' = Event("apply", s, 0, "none")
    /\ UNCHANGED <<today, login, wiz, jobs, nextIdx, audit, sessVars, ppmVars, tagVars, rq>>

\* any other rerun of the page: the query is built from st.session_state
Rerun(s) ==
    /\ sPage[s] = "daily"
    /\ NoCall
    /\ flt' = Normalized(flt)
    /\ ui' = QueryResult(jobs, objects, flt', today)
    /\ ev' = Event("rerun", s, 0, "none")
    /\ UNCHANGED <<today, login, wiz, jobs, nextIdx, audit, sessVars, ppmVars, tagVars, rq>>

FilterRow(j, day, tag, type, dept, wo, start) ==
    [job_indx |-> j, date |-> day, Object_Tag |-> tag, job_type |-> type,
     department |-> dept, wo_number |-> wo, permit_number |-> <<"P", "1">>,
     keywords |-> <<"k", "1">>, job_description |-> <<"d">>, actual_start |-> start]

TagA == <<"A", "1">>
TagB == <<"B", "2">>
FilterObject(tag, train) ==
    [Object_Tag |-> tag, Father_Tag |-> <<"U">>, Long_Tag |-> <<"U", "/">> \o tag,
     Unit_Code |-> <<"U">>, Train |-> train, Modified |-> <<>>]

\* reports of tag A1 on D-40, D-20, D-5 and D
ExampleJobs ==
    <<FilterRow(1, Day0 - 40, TagA, "PM", "Fix", <<"w", "1">>, Day0 - 40),
      FilterRow(2, Day0 - 20, TagA, "CM", "Fix", <<"W", "2">>, Day0 - 20),
      FilterRow(3, Day0 - 5, TagA, "PM", "Rotary", <<>>, Day0 - 5),
      FilterRow(4, Day0, TagA, "CM", "Rotary", <<"w", "1">>, Day0)>>

\* reports of tag A1 at the edges of the two windows, one of tag B2
EdgeJobs ==
    <<FilterRow(1, Day0 - YearWindow - 1, TagA, "PM", "Fix", <<"w", "1">>, Day0),
      FilterRow(2, Day0 - YearWindow, TagA, "PM", "Fix", <<"w", "1">>, Day0),
      FilterRow(3, Day0 - MonthWindow - 1, TagA, "CM", "Fix", <<>>, Day0),
      FilterRow(4, Day0 - MonthWindow, TagA, "CM", "Rotary", <<>>, Day0),
      FilterRow(5, Day0, TagA, "PM", "Rotary", <<"w", "1">>, Day0),
      FilterRow(6, Day0, TagB, "PM", "Fix", <<"w", "1">>, Day0)>>

InitFilter ==
    /\ today = Day0
    /\ \/ jobs = ExampleJobs /\ objects = {FilterObject(TagA, <<"1">>)}
       \/ jobs = EdgeJobs /\ objects = {FilterObject(TagA, <<"x">>)}
    /\ renameLog = NoRename
    /\ audit = [j \in Idx |-> NoAudit]
    /\ nextIdx = Len(jobs) + 1
    /\ SessionsClosed
    /\ rq = IdleRq
    /\ ui = NoUi
    /\ flt = DefaultFilter(Day0)

NextFilter ==
    \/ Tick(Day0 + FilterDays)
    \/ OpenFilterPage(FilterSession, "ali")
    \/ \E form \in AllForms : ApplyFilters(FilterSession, form)
    \/ Rerun(FilterSession)
    \/ SaveDefault(FilterSession, "reset_default")
    \/ \E outcome \in Outcomes : Attempt(outcome)

SpecFilter == InitFilter /\ [][NextFilter]_vars

\* the steps that build and run the filter query
RunOps == {"open_filter", "apply", "rerun"}

\* C15: every filter query carries the inclusive range given by the last
\* Apply: [From, To], [From, today], [1970-01-01, To], or the last N days
\* (N the days-back value if a positive integer, else 7) when no bound is set.
ClaimedDays(text) == IF text = "3" THEN 3 ELSE IF text = "10" THEN 10 ELSE 7
ClaimedRange(f, day) ==
    CASE f.applied_from # NoDate /\ f.applied_to # NoDate -> <<f.applied_from, f.applied_to>>
      [] f.applied_from # NoDate /\ f.applied_to = NoDate -> <<f.applied_from, day>>
      [] f.applied_from = NoDate /\ f.applied_to # NoDate -> <<0, f.applied_to>>
      [] OTHER -> <<day - ClaimedDays(f.recent_days), day>>
C15_RangeFollowsLastApply ==
    ev.op \in RunOps =>
        DateRange(flt, today) \in {ClaimedRange(flt, today),
                                   <<today - ClaimedDays(flt.recent_days), today>>}

\* C16: whatever text the tag, father-tag, unit, train, WO, permit or
\* keyword filters hold, the filter query runs without raising, and a
\* filter that matches nothing gives an empty result.
C16_QueryNeverRaises ==
    ev.op \in RunOps =>
        /\ ui.msg # "error"
        /\ Selected(jobs, objects, flt, today) = {} => ui.msg = "no_records"

\* C17: each returned row carries, for its tag T and date D, the number of
\* reports of T dated in [D - 30, D] and in [D - 365, D], both ends
\* included, counted over all reports whatever the filters are; the row
\* dated D of a tag reported on D-40, D-20, D-5 and D carries 3 and 4.
ReportsIn(tag, days) ==
    Cardinality({x \in DOMAIN jobs : jobs[x].Object_Tag = tag /\ jobs[x].date \in days})
C17_CountsAnchoredInclusive ==
    ev.op \in RunOps =>
        /\ \A r \in ui.rows :
              LET D == jobs[r.job_indx].date
                  T == jobs[r.job_indx].Object_Tag
              IN /\ r.Count_MTD = ReportsIn(T, (D - 30)..D)
                 /\ r.Count_YTD = ReportsIn(T, (D - 365)..D)
        /\ jobs = ExampleJobs =>
              \A r \in ui.rows : r.job_indx = 4 => r.Count_MTD = 3 /\ r.Count_YTD = 4
C17_Witness ==
    /\ ev.op = "apply"
    /\ flt.job_type = "CM"
    /\ jobs = ExampleJobs
    /\ ui.rows = {[job_indx |-> 4, Count_MTD |-> 3, Count_YTD |-> 4]}

\* the widget values that give the filter state f when applied
FormOf(f) ==
    [k \in FormFields |->
        CASE k = "date_from" -> IF f.user_set_from_date THEN f.date_from ELSE NoDate
          [] k = "date_to" -> IF f.user_set_to_date THEN f.date_to ELSE NoDate
          [] OTHER -> f[k]]
\* the filter state f with the one filter a applied on top of it
WithFilter(f, a, v) == Normalized(Applied(f, [FormOf(f) EXCEPT ![a] = v]))
\* the filter a is empty in f
Unset(f, a) ==
    CASE a = "date_from" -> ~f.user_set_from_date
      [] a = "date_to" -> ~f.user_set_to_date
      [] a \in {"job_type", "department_filter"} -> f[a] = "All"
      [] a = "actual_start_filter" -> f[a] = NoDate
      [] OTHER -> StripText(f[a]) = <<>>
Matching(f) ==
    IF SqlValid(f) THEN Cardinality(Selected(jobs, objects, f, today)) ELSE 0
Returned(f) == Cardinality(QueryResult(jobs, objects, f, today).rows)

\* C14: making one more filter non-empty (any of the plain filters, or a
\* From or To date) never increases the number of matching rows nor the
\* number of rows returned.
C14_OneMoreFilterNarrows ==
    ev.op \in RunOps =>
        \A a \in DateFields \cup PlainFields :
            Unset(flt, a) =>
                \A v \in FormValues(a) :
                    /\ Matching(WithFilter(flt, a, v)) <= Matching(flt)
                    /\ Returned(WithFilter(flt, a, v)) <= Returned(flt)

(***************************************************************************)
(* The same page over a table with about PageLimit matching reports.       *)
(***************************************************************************)
CapExtra == 2
\* reports of the last three days, all of one tag
BulkRow(j) ==
    FilterRow(j, Day0 - (j % 3), TagA, IF j % 2 = 0 THEN "PM" ELSE "CM",
              "Fix", <<"w">>, Day0)
CapForms == {DefaultForm} \cup OneMoreOf(DefaultForm, {"job_type", "date_to", "recent_days", "wo_filter"})

InitCap ==
    /\ today = Day0
    /\ \E n \in (PageLimit - 1)..(PageLimit + CapExtra) : jobs = [j \in 1..n |-> BulkRow(j)]
    /\ objects = {FilterObject(TagA, <<"1">>)}
    /\ renameLog = NoRename
    /\ audit = [j \in Idx |-> NoAudit]
    /\ nextIdx = Len(jobs) + 1
    /\ SessionsClosed
    /\ rq = IdleRq
    /\ ui = NoUi
    /\ flt = DefaultFilter(Day0)

NextCap ==
    \/ Tick(Day0 + FilterDays)
    \/ OpenFilterPage(FilterSession, "ali")
    \/ \E form \in CapForms : ApplyFilters(FilterSession, form)
    \/ Rerun(FilterSession)

SpecCap == InitCap /\ [][NextCap]_vars

\* C13: the total the filter query reports is the number of reports that
\* satisfy the active predicate, uncapped: when more than 150 match, the
\* total is above 150 while exactly 150 rows are returned.
C13_TotalIsUncapped ==
    ev.op \in RunOps /\ ui.msg # "error" =>
        /\ ui.total = Matching(flt)
        /\ Matching(flt) > PageLimit =>
              ui.total > PageLimit /\ Cardinality(ui.rows) = PageLimit

(***************************************************************************)
(* Deleting reports from two places: the PPM edit dialog, which deletes    *)
(* the reports of the tags left unchecked by the index it loaded earlier,  *)
(* and the Daily Jobs page of another session.                             *)
(***************************************************************************)
DailySession == "s2"

\* every tag is left unchecked with an empty description
NextDelete ==
    \/ OpenRoute(PpmSession, "ali")
    \/ \E found \in BOOLEAN : LoadPPM(PpmSession, found)
    \/ PressSaveEdited(PpmSession)
    \/ \E ok \in [RouteTagSet -> BOOLEAN] :
          edit_confirm_dialog(PpmSession, [t \in RouteTagSet |-> FALSE],
                              [t \in RouteTagSet |-> ""], ok)
    \/ \E u \in EditUsers : OpenPage(DailySession, u, "daily")
    \/ \E j \in Idx : EnterJobIndex(DailySession, j)
    \/ PressRemove(DailySession)
    \/ \E ok \in BOOLEAN : PressYesDelete(DailySession, ok)

SpecDelete == InitPPM /\ [][NextDelete]_vars

FirstTrain == 1
LastTrain == 6
MissLimit == 2
Digits == {"0", "1", "2", "3", "4", "5", "6", "7", "8", "9"}
Letters == {"A", "B", "K", "M", "a"}
\* str(t) for the train numbers
TrainDigit(t) == <<"1", "2", "3", "4", "5", "6">>[t]

\* str.split("-")
RECURSIVE SplitDash(_)
SplitDash(t) ==
    IF \A i \in 1..Len(t) : t[i] # "-" THEN <<t>>
    ELSE LET p == CHOOSE i \in 1..Len(t) : t[i] = "-" /\ \A k \in 1..(i - 1) : t[k] # "-"
         IN <<SubSeq(t, 1, p - 1)>> \o SplitDash(SubSeq(t, p + 1, Len(t)))
\* "-".join(parts)
RECURSIVE JoinDash(_)
JoinDash(parts) ==
    IF parts = <<>> THEN <<>>
    ELSE IF Len(parts) = 1 THEN parts[1]
    ELSE parts[1] \o <<"-">> \o JoinDash(Tail(parts))
\* Object_Tag LIKE prefix || '%'
LikePrefix(prefix, tag) == IsPrefix(Lower(prefix), Lower(tag))

NoInfo == [prefix |-> <<>>]
\* (prefix, train_number, suffix, tail) of a tag, or None
extract_train_info(tag) ==
    LET parts == SplitDash(tag)
    IN IF Len(parts) < 3 THEN NoInfo
       ELSE LET block == parts[3]
            IN IF Len(block) < 3 \/ \E i \in 1..3 : block[i] \notin Digits THEN NoInfo
               ELSE [prefix |-> JoinDash(SubSeq(parts, 1, 2)) \o <<"-">>,
                     number_block |-> SubSeq(block, 1, 3),
                     suffix |-> SubSeq(block, 4, Len(block)),
                     tail |-> IF Len(parts) > 3
                              THEN <<"-">> \o JoinDash(SubSeq(parts, 4, Len(parts)))
                              ELSE <<>>]

\* get_standby_variants; ok = FALSE is the read failing
get_standby_variants(objs, active_tag, ok) ==
    IF \/ active_tag = <<>>
       \/ Len(SplitDash(active_tag)) # 3
       \/ active_tag[Len(active_tag)] \notin Letters
    THEN {}
    ELSE IF ~ok THEN {}
    ELSE {t \in objs : LikePrefix(SubSeq(active_tag, 1, Len(active_tag) - 1), t)}
            \ {active_tag}

\* the loop over the trains t..6 of generate_typicals, miss the count of
\* consecutive missing trains so far and limit the count that stops it
RECURSIVE TypicalsNoReset(_, _, _, _, _)
TypicalsNoReset(existing, info, t, miss, limit) ==
    IF t > LastTrain THEN {}
    ELSE LET candidate == info.prefix \o <<TrainDigit(t)>> \o Tail(info.number_block)
                             \o info.suffix \o info.tail
         IN IF candidate \in existing
            THEN {candidate} \cup TypicalsNoReset(existing, info, t + 1, miss, limit)
            ELSE IF miss + 1 >= limit THEN {}
            ELSE TypicalsNoReset(existing, info, t + 1, miss + 1, limit)
RECURSIVE TypicalsFrom(_, _, _, _, _)
TypicalsFrom(existing, info, t, miss, limit) ==
    IF t > LastTrain THEN {}
    ELSE LET candidate == info.prefix \o <<TrainDigit(t)>> \o Tail(info.number_block)
                             \o info.suffix \o info.tail
         IN IF candidate \in existing
            THEN {candidate} \cup TypicalsFrom(existing, info, t + 1, 0, limit)
            ELSE IF miss + 1 >= limit THEN {}
            ELSE TypicalsFrom(existing, info, t + 1, miss + 1, limit)

generate_typicals_first_miss(existing, tag) ==
    IF extract_train_info(tag) = NoInfo THEN {}
    ELSE TypicalsFrom(existing, extract_train_info(tag), FirstTrain, 0, 1)
generate_typicals(existing, tag) ==
    IF extract_train_info(tag) = NoInfo THEN {}
    ELSE TypicalsFrom(existing, extract_train_info(tag), FirstTrain, 0, MissLimit)

\* get_typical_family; okFamily / okStandby = FALSE are the two reads failing
get_typical_family(objs, active_tag, okFamily, okStandby) ==
    IF ~okFamily THEN {}
    ELSE LET parts == SplitDash(active_tag)
             prefix_main == JoinDash(SubSeq(parts, 1, Min(2, Len(parts)))) \o <<"-">>
             existing == {t \in objs : LikePrefix(prefix_main, t)}
             standbys == get_standby_variants(objs, active_tag, okStandby)
         IN {active_tag} \cup standbys
               \cup UNION {generate_typicals(existing, t) : t \in {active_tag} \cup standbys}

\* 103-K-<train>01<suffix>
FamilyTag(train, suffix) == <<"1", "0", "3", "-", "K", "-", train, "0", "1">> \o suffix
FamilyTags ==
    {FamilyTag(TrainDigit(t), <<"A">>) : t \in FirstTrain..LastTrain}
        \cup {FamilyTag("1", <<"B">>), FamilyTag("2", <<"B">>), FamilyTag("1", <<>>)}
ActiveTags == {FamilyTag("1", <<"A">>), FamilyTag("1", <<"B">>), FamilyTag("1", <<>>),
               FamilyTag("4", <<"A">>), <<"K", "-", "1">>}
FamilySession == "s1"

\* the Object Details page of a tag builds its other-trains comparison
OpenComparison(s, tag, okFamily, okStandby) ==
    /\ sPage' = [sPage EXCEPT ![s] = "object"]
    /\ sTag' = [sTag EXCEPT ![s] = tag]
    /\ ui' = [NoUi EXCEPT
                !.msg = IF okFamily THEN "family" ELSE "no_family",
                !.exhausted = IF okStandby THEN {} ELSE {"standby"},
                !.rows = get_typical_family({o.Object_Tag : o \in objects}, tag,
                                            okFamily, okStandby)]
    /\ ev' = Event("comparison", s, 0, "none")
    /\ UNCHANGED <<today, login, wiz, jobs, nextIdx, audit, sUser, jobInput, confirmDelete,
                   editMode, selJob, ppmVars, tagVars, rq, flt>>

\* leaving the page
CloseComparison(s) ==
    /\ sPage[s] = "object"
    /\ sPage' = [sPage EXCEPT ![s] = "closed"]
    /\ sTag' = [sTag EXCEPT ![s] = NoTag]
    /\ ui' = NoUi
    /\ ev' = Event("close", s, 0, "none")
    /\ UNCHANGED <<today, login, wiz, jobs, nextIdx, audit, sUser, jobInput, confirmDelete,
                   editMode, selJob, ppmVars, tagVars, rq, flt>>

InitFamily ==
    /\ today = 0
    /\ jobs = [j \in Idx |-> NoJob]
    /\ audit = [j \in Idx |-> NoAudit]
    /\ nextIdx = 1
    /\ SessionsClosed
    /\ \E tags \in SUBSET FamilyTags : objects = {[Object_Tag |-> t] : t \in tags}
    /\ renameLog = NoRename
    /\ NoRetry

NextFamily ==
    \/ \E tag \in ActiveTags, okFamily \in BOOLEAN, okStandby \in BOOLEAN :
          OpenComparison(FamilySession, tag, okFamily, okStandby)
    \/ CloseComparison(FamilySession)

SpecFamily == InitFamily /\ [][NextFamily]_vars

\* the objects 103-K-101A, 101B, 201A, 401A, 501A, 601A and nothing else
ScenarioTags ==
    {FamilyTag("1", <<"A">>), FamilyTag("1", <<"B">>), FamilyTag("2", <<"A">>),
     FamilyTag("4", <<"A">>), FamilyTag("5", <<"A">>), FamilyTag("6", <<"A">>)}
Scenario ==
    /\ ev.op = "comparison"
    /\ {o.Object_Tag : o \in objects} = ScenarioTags
    /\ sTag[FamilySession] = FamilyTag("1", <<"A">>)
    /\ ui.msg = "family" /\ ui.exhausted = {}

CandidateOf(seed, t) ==
    LET info == extract_train_info(seed)
    IN info.prefix \o <<TrainDigit(t)>> \o Tail(info.number_block) \o info.suffix \o info.tail
ObjectTagSet == {o.Object_Tag : o \in objects}
\* the candidates of the trains k and k + 1 are both missing, before train t
TwoMissesBefore(seed, t) ==
    \E k \in 1..(t - 2) :
        CandidateOf(seed, k) \notin ObjectTagSet /\ CandidateOf(seed, k + 1) \notin ObjectTagSet
Seeds(tag) == {tag} \cup get_standby_variants(ObjectTagSet, tag, TRUE)
ComparisonDone ==
    ev.op = "comparison" /\ ui.msg = "family" /\ ui.exhausted = {}

C22_StandbyIsRootPlusLetter ==
    ComparisonDone =>
        LET tag == sTag[FamilySession]
            standbys == get_standby_variants(ObjectTagSet, tag, TRUE)
        IN /\ standbys \subseteq ui.rows
           /\ IF tag[Len(tag)] \in Letters
              THEN standbys =
                     {t \in ObjectTagSet :
                         /\ Len(t) = Len(tag)
                         /\ SubSeq(t, 1, Len(t) - 1) = SubSeq(tag, 1, Len(tag) - 1)
                         /\ t[Len(t)] \in Letters} \ {tag}
              ELSE standbys = {}

\* the segments of a Long_Tag text, split on "/"
RECURSIVE SlashSegments(_)
SlashSegments(t) ==
    IF \A i \in 1..Len(t) : t[i] # "/" THEN {t}
    ELSE LET p == CHOOSE i \in 1..Len(t) : t[i] = "/" /\ \A k \in 1..(i - 1) : t[k] # "/"
         IN {SubSeq(t, 1, p - 1)} \cup SlashSegments(SubSeq(t, p + 1, Len(t)))
\* the objects that have f as a segment of their Long_Tag
FamilyOf(f) == {o \in objects : f \in SlashSegments(o.Long_Tag)}

\* C23: the family of a father tag F is exactly the objects whose Long_Tag
\* has a segment equal to F; an object that only contains F inside a
\* longer segment is not in it.  For the father-tag filter: the rows it
\* returns are those of the same query without it whose object is in the
\* family of one of the filter's tags.
C23_FamilyIsSegmentMatch ==
    (ev.op \in RunOps /\ SqlValid(flt) /\ StripText(flt.father_tag_filter) # <<>>) =>
        LET without == [flt EXCEPT !.father_tag_filter = <<>>]
            family == UNION {FamilyOf(v) : v \in Items(flt.father_tag_filter)}
        IN {r.job_indx : r \in ui.rows} =
              {p[1] : p \in {q \in Selected(jobs, objects, without, today) :
                                \E o \in family : o.Object_Tag = jobs[q[1]].Object_Tag}}

\* C24: the rows returned are the first min(150, M) of the M matching
\* rows in the order date descending, job index descending: never more
\* than 150, and no matching row left out sorts before a returned one.
C24_FirstRowsInOrder ==
    (ev.op \in RunOps /\ ui.msg # "error") =>
        LET matching == {p[1] : p \in Selected(jobs, objects, flt, today)}
            returned == {r.job_indx : r \in ui.rows}
            M == Cardinality(matching)
        IN /\ returned \subseteq matching
           /\ Cardinality(returned) = IF M < 150 THEN M ELSE 150
           /\ \A x \in matching \ returned, y \in returned :
                 \/ jobs[x].date < jobs[y].date
                 \/ jobs[x].date = jobs[y].date /\ x < y
C24_Witness ==
    /\ ev.op \in RunOps
    /\ Cardinality(ui.rows) = 150
    /\ Cardinality(Selected(jobs, objects, flt, today)) > 150

\* the row of objects that a row of objects' was before the step
PrevObject(o) ==
    IF o.Object_Tag \in ObjectTags THEN ObjectRow(o.Object_Tag)
    ELSE ObjectRow(renameLog'.old)
Grown(o) == Len(o.Modified) = Len(PrevObject(o).Modified) + 1

RecentRows == 3
RecentLimit == 2
RecentSession == "s1"

\* df["status"].str.lower()
LowerStatus(st) ==
    CASE st = "Ongoing" -> "ongoing"
      [] st = "On Hold" -> "on hold"
      [] OTHER -> st

RecentRow(j, day, tag, type, dept, wo, permit, st) ==
    [job_indx |-> j, date |-> day, Object_Tag |-> tag, job_type |-> type,
     department |-> dept, wo_number |-> wo, permit_number |-> permit, status |-> st]

\* WHERE Object_Tag = ? AND department = ? AND lower(job_type) = 'cm'
RecentSelected(tbl, tag, dept) ==
    {[tbl[i] EXCEPT !.status = LowerStatus(tbl[i].status)] :
        i \in {k \in 1..Len(tbl) : /\ tbl[k].Object_Tag = tag
                                    /\ tbl[k].department = dept
                                    /\ tbl[k].job_type \in {"CM", "cm"}}}

\* sort_values(by=["date", "job_indx"], ascending=[False, False])
Later(a, b) == a.date > b.date \/ (a.date = b.date /\ a.job_indx > b.job_indx)

\* two reports carrying the same WO number or the same permit number
SameWoOrPermit(a, b) ==
    \/ a.wo_number = b.wo_number /\ a.wo_number # ""
    \/ a.permit_number = b.permit_number /\ a.permit_number # ""
\* drop_duplicates(subset=["wo_number", "permit_number"], keep="first")
SameWoAndPermit(a, b) == a.wo_number = b.wo_number /\ a.permit_number = b.permit_number
DropDuplicates(rows) ==
    {r \in rows : ~\E q \in rows : q # r /\ SameWoAndPermit(q, r) /\ Later(q, r)}

\* status_order = {"ongoing": 0, "on hold": 1, "completed": 2}, others 99
StatusOrder(st) ==
    CASE st = "ongoing" -> 0
      [] st = "on hold" -> 1
      [] st = "completed" -> 2
      [] OTHER -> 99

\* sort_values(by=["status_order", "date"], ascending=[True, False]), which
\* keeps the earlier order of rows equal in both
RecentBefore(a, b) ==
    \/ StatusOrder(a.status) < StatusOrder(b.status)
    \/ StatusOrder(a.status) = StatusOrder(b.status) /\ Later(a, b)

RECURSIVE RecentOrdered(_)
RecentOrdered(rows) ==
    IF rows = {} THEN <<>>
    ELSE LET f == CHOOSE r \in rows : \A q \in rows \ {r} : RecentBefore(r, q)
         IN <<f>> \o RecentOrdered(rows \ {f})

get_recent_related_jobs(tbl, tag, dept, limit) ==
    LET df == RecentOrdered(DropDuplicates(RecentSelected(tbl, tag, dept)))
    IN SubSeq(df, 1, Min(limit, Len(df)))

\* render_job_details lists the recent jobs of the tag for the user's department
ShowRelatedJobs(s, tag, dept) ==
    /\ ui' = [NoUi EXCEPT !.msg = "related_jobs",
                          !.rows = get_recent_related_jobs(jobs, tag, dept, RecentLimit)]
    /\ sTag' = [sTag EXCEPT ![s] = tag]
    /\ ev' = Event("related_jobs", s, 0, dept)
    /\ UNCHANGED <<today, login, wiz, jobs, nextIdx, audit, sUser, sPage, jobInput, confirmDelete,
                   editMode, selJob, ppmVars, tagVars, rq, flt>>

RecentDepts == {"Fix", "Rotary"}

\* reports of other tags, departments and job types
ForeignRows(n) ==
    <<RecentRow(n + 1, 2, "T2", "CM", "Fix", "W1", "P1", "Ongoing"),
      RecentRow(n + 2, 2, "T1", "PM", "Fix", "W1", "P1", "Ongoing"),
      RecentRow(n + 3, 2, "T1", "CM", "Rotary", "W1", "P1", "Ongoing")>>

RecentChoices(j) ==
    {RecentRow(j, day, "T1", "CM", "Fix", wo, permit, st) :
        day \in 1..2, wo \in {"", "W1"}, permit \in {"P1", "P2"},
        st \in {"Ongoing", "on hold", "completed"}}

InitRecent ==
    /\ today = 2
    /\ \E f \in [1..RecentRows -> UNION {RecentChoices(j) : j \in 1..RecentRows}] :
         /\ \A j \in 1..RecentRows : f[j].job_indx = j
         /\ jobs = f \o ForeignRows(RecentRows)
    /\ audit = [j \in Idx |-> NoAudit]
    /\ nextIdx = Len(jobs) + 1
    /\ SessionsClosed
    /\ NoObjects
    /\ NoRetry

NextRecent ==
    \E tag \in Tags, dept \in RecentDepts : ShowRelatedJobs(RecentSession, tag, dept)

SpecRecent == InitRecent /\ [][NextRecent]_vars

\* C26: the list has at most limit CM jobs of the tag and department,
\* ongoing before on hold before completed, and no two listed jobs share a
\* WO number or a permit number: of jobs sharing either one only the latest
\* is listed.
C26_RecentJobsUnique ==
    ui.msg = "related_jobs" =>
       LET res == ui.rows
           pool == RecentSelected(jobs, sTag[RecentSession], ev.gate)
       IN /\ Len(res) <= RecentLimit
          /\ \A i \in 1..Len(res) : res[i] \in pool
          /\ \A i, k \in 1..Len(res) :
                i < k => /\ StatusOrder(res[i].status) <= StatusOrder(res[k].status)
                         /\ ~SameWoOrPermit(res[i], res[k])
          /\ \A i \in 1..Len(res) :
                ~\E q \in pool : SameWoOrPermit(q, res[i]) /\ Later(q, res[i])

\* ---------------------------------------------------------------------
\* Login on the Home page and the identity of the page requests
\* ---------------------------------------------------------------------
LoginSession == "s1"

\* Home: the Login button; verify_user and get_user_info need a users row
\* and the right password (ok)
Login(s, u, ok) ==
    /\ login[s] = NoUser
    /\ login' = [login EXCEPT ![s] = IF ok /\ HasRow(u) THEN u ELSE NoUser]
    /\ ev' = Event(IF ok /\ HasRow(u) THEN "login" ELSE "login_failed", s, 0, "none")
    /\ UNCHANGED <<today, jobs, nextIdx, audit, sessVars, ppmVars, tagVars, retryVars, wiz>>

\* Home: the Logout button
Logout(s) ==
    /\ login[s] # NoUser
    /\ login' = [login EXCEPT ![s] = NoUser]
    /\ ev' = Event("logout", s, 0, "none")
    /\ UNCHANGED <<today, jobs, nextIdx, audit, sessVars, ppmVars, tagVars, retryVars, wiz>>

\* a link of the Home page carries ?username= of the logged-in user; a page
\* request typed by hand carries any username
NextLogin ==
    \/ \E u \in UserNames, ok \in BOOLEAN : Login(LoginSession, u, ok)
    \/ Logout(LoginSession)
    \/ \E p \in Pages : login[LoginSession] # NoUser /\ OpenPage(LoginSession, login[LoginSession], p)
    \/ \E u \in UserNames, p \in Pages : OpenPage(LoginSession, u, p)
    \/ \E u \in UserNames : OpenRoute(LoginSession, u)
    \/ \E j \in 0..2 : EnterJobIndex(LoginSession, j)
    \/ PressRemove(LoginSession)
    \/ \E ok \in BOOLEAN : PressYesDelete(LoginSession, ok)
    \/ PressCancelDelete(LoginSession)

SpecLogin == InitGate /\ [][NextLogin]_vars

\* C27: the rights a session gets on the job pages and on the route page
\* are those of the identity it logged in with: a session logged in as a
\* non-admin user, or not logged in, never has editing enabled for a
\* record that its login identity may not edit, and never gets the
\* route-management section.
C27_RightsFollowLogin ==
    \A s \in Sessions :
       ~IsAdmin(login[s]) =>
          /\ (sPage[s] \in Pages /\ Gate(s, jobInput[s]) = "yes")
                => /\ login[s] # NoUser
                   /\ EditEnabled(login[s], jobs[jobInput[s]], today)
          /\ sPage[s] = "route" => ~IsAdmin(sUser[s])

\* C28: a rename takes effect entirely or not at all: whatever step of the
\* cascade fails, no job report, Father_Tag or Long_Tag segment names a tag
\* for which no Object exists (the unit code heads every branch).
C28_NoDanglingReference ==
    /\ \A j \in Idx : Exists(j) => jobs[j].Object_Tag \in ObjectTags
    /\ \A o \in objects : o.Father_Tag \in ObjectTags \cup {UnitCode}
    /\ \A o \in objects : Segments(o.Long_Tag) \subseteq ObjectTags \cup {UnitCode}

\* ---------------------------------------------------------------------
\* The CM job wizard (render_add_job_section, job_dialog)
\* ---------------------------------------------------------------------
WizardSessions == {"s1"}
WizardTags == {"", "T1", "x"}
WizardTexts == {"", " ", "d1"}

\* str.strip() of a wizard input
KeepBlanks(x) == x
Stripped(x) == IF x = " " THEN "" ELSE x

\* a fresh session on the Daily Jobs page
OpenWizardPage(s, u) ==
    /\ sUser' = [sUser EXCEPT ![s] = u]
    /\ sPage' = [sPage EXCEPT ![s] = "daily"]
    /\ wiz' = [wiz EXCEPT ![s] = NoWizard]
    /\ ev' = Event("open", s, 0, "none")
    /\ UNCHANGED <<today, login, jobs, nextIdx, audit, sTag, jobInput, confirmDelete,
                   editMode, selJob, ppmVars, tagVars, retryVars>>

WizardStep(s, op, w) ==
    /\ wiz' = [wiz EXCEPT ![s] = w]
    /\ ev' = Event(op, s, 0, "none")
    /\ UNCHANGED <<today, login, jobs, nextIdx, audit, sessVars, ppmVars, tagVars, retryVars>>

\* "Add New CM Job"
PressAdd(s) ==
    /\ sPage[s] = "daily"
    /\ WizardStep(s, "add",
          [wiz[s] EXCEPT !.show = TRUE, !.error = "", !.step = 1, !.open = FALSE,
                         !.temp = [NoTemp EXCEPT !.Object_Tag = wiz[s].temp.Object_Tag]])

\* "Continue" of the initial form
PressContinue(s, tag) ==
    LET default_tag == wiz[s].temp.Object_Tag
        object_tag == IF default_tag # "" THEN default_tag ELSE tag
    IN /\ sPage[s] = "daily"
       /\ wiz[s].show
       /\ IF object_tag = ""
          THEN WizardStep(s, "continue_invalid", wiz[s])
          ELSE WizardStep(s, "continue",
                  [wiz[s] EXCEPT !.temp = [NoTemp EXCEPT !.Object_Tag = Upper(object_tag)],
                                 !.open = TRUE, !.show = FALSE])

\* the dialog is drawn
DialogOpen(s) == sPage[s] = "daily" /\ ~wiz[s].show /\ wiz[s].open

close_job_dialog(w) == [w EXCEPT !.open = FALSE, !.step = 1, !.error = "", !.temp = NoTemp]

\* "Next" of step 1 (continuing a listed job or not) and of step 2
PressNext(s, continued, wo) ==
    /\ DialogOpen(s)
    /\ wiz[s].step \in {1, 2}
    /\ IF wiz[s].step = 1
       THEN /\ wo = ""
            /\ WizardStep(s, "next",
                  [wiz[s] EXCEPT !.step = 2,
                                 !.temp = IF continued
                                          THEN [wiz[s].temp EXCEPT !.wo_number = "w1",
                                                                   !.performed_action = "d1"]
                                          ELSE wiz[s].temp])
       ELSE /\ ~continued
            /\ WizardStep(s, "next",
                  [wiz[s] EXCEPT !.step = 3, !.error = "",
                                 !.temp = [wiz[s].temp EXCEPT !.wo_number = Stripped(wo)]])

PressPrevious(s) ==
    /\ DialogOpen(s)
    /\ wiz[s].step \in {2, 3}
    /\ WizardStep(s, "previous", [wiz[s] EXCEPT !.step = wiz[s].step - 1])

PressCancel(s) ==
    /\ DialogOpen(s)
    /\ WizardStep(s, "cancel", close_job_dialog(wiz[s]))

\* "Submit" of step 3; ok is the result of save_job_to_db
PressSubmit(s, desc, status, action, ok) ==
    LET temp == [wiz[s].temp EXCEPT !.job_description = Stripped(desc),
                                    !.status = Stripped(status),
                                    !.performed_action = Stripped(action)]
    IN /\ DialogOpen(s)
       /\ wiz[s].step = 3
       /\ IF Stripped(desc) = "" \/ Stripped(status) = "" \/ Stripped(action) = ""
          THEN WizardStep(s, "submit_invalid",
                  [wiz[s] EXCEPT !.error = IF Stripped(desc) = "" THEN "description"
                                           ELSE IF Stripped(status) = "" THEN "status"
                                           ELSE "performed"])
          ELSE IF ~ok
          THEN WizardStep(s, "submit_failed", [wiz[s] EXCEPT !.temp = temp])
          ELSE /\ nextIdx \in Idx
               /\ jobs' = insert_job_report(jobs, nextIdx,
                             InsertedRow(nextIdx, sUser[s], temp.Object_Tag,
                                         temp.job_description, temp.wo_number, "CM", today))
               /\ audit' = [audit EXCEPT ![nextIdx] = InsertedAudit(sUser[s], today)]
               /\ nextIdx' = nextIdx + 1
               /\ wiz' = [wiz EXCEPT ![s] = close_job_dialog([wiz[s] EXCEPT !.last = temp])]
               /\ ev' = Event("submit", s, nextIdx, "none")
               /\ UNCHANGED <<today, login, sessVars, ppmVars, tagVars, retryVars>>

InitWizard ==
    /\ today = 0
    /\ jobs = [j \in Idx |-> NoJob]
    /\ audit = [j \in Idx |-> NoAudit]
    /\ nextIdx = 1
    /\ SessionsClosed
    /\ NoObjects
    /\ NoRetry

NextWizard ==
    \E s \in WizardSessions :
       \/ OpenWizardPage(s, "ali")
       \/ PressAdd(s)
       \/ \E tag \in WizardTags : PressContinue(s, tag)
       \/ \E continued \in BOOLEAN, wo \in {"", "w1"} : PressNext(s, continued, wo)
       \/ PressPrevious(s)
       \/ PressCancel(s)
       \/ \E desc \in WizardTexts, status \in {"", "d1"}, action \in WizardTexts, ok \in BOOLEAN :
             PressSubmit(s, desc, status, action, ok)

SpecWizard == InitWizard /\ [][NextWizard]_vars

\* C29: a job report is inserted only by Submit at step 3 with a non-blank
\* description, status and performed action, and such a Submit inserts one
\* row; Cancel, Previous, an invalid Submit and a failed save leave the
\* job reports as they are.
C29_InsertOnlyByValidSubmit ==
    [][/\ jobs' # jobs =>
            LET s == ev'.sess
                j == ev'.indx
            IN /\ ev'.op = "submit"
               /\ wiz[s].open /\ wiz[s].step = 3
               /\ wiz'[s].last.job_description \notin {"", " "}
               /\ wiz'[s].last.status \notin {"", " "}
               /\ wiz'[s].last.performed_action \notin {"", " "}
               /\ jobs[j] = NoJob /\ jobs'[j] # NoJob
               /\ jobs'[j].Object_Tag = wiz[s].temp.Object_Tag
               /\ \A k \in Idx \ {j} : jobs'[k] = jobs[k]
       /\ ev'.op \in {"cancel", "previous", "submit_invalid", "submit_failed"} => jobs' = jobs
       /\ ev'.op = "submit" => jobs' # jobs]_vars
C29_Witness ==
    /\ ev.op = "submit"
    /\ Exists(1) /\ Exists(2)
    /\ jobs[2].job_description = "d1"
    /\ jobs[2].wo_number = "w1"
    /\ ~wiz[ev.sess].open
    /\ wiz[ev.sess].last.performed_action = "d1"

\* the stored reports of a tag
TagRows(tbl, t) == {j \in Idx : tbl[j] # NoJob /\ tbl[j].Object_Tag = t}
AllOk == [t \in RouteTagSet |-> TRUE]

\* what the confirm does for tag t, given the tick c and the description d
\* of the form and the record e the form holds for t
PpmOutcome(t, e, c, d) ==
    IF e # NoJob /\ ~c
    THEN /\ TagRows(jobs', t) = TagRows(jobs, t) \ {e.job_indx}
         /\ \A j \in TagRows(jobs', t) : jobs'[j] = jobs[j]
    ELSE IF e # NoJob
    THEN /\ e.job_indx \in TagRows(jobs', t)
         /\ jobs'[e.job_indx].job_description = d
         /\ TagRows(jobs', t) = TagRows(jobs, t) \cup {e.job_indx}
         /\ \A j \in TagRows(jobs', t) \ {e.job_indx} : jobs'[j] = jobs[j]
    ELSE IF c \/ d # ""
    THEN /\ Cardinality(TagRows(jobs', t) \ TagRows(jobs, t)) = 1
         /\ TagRows(jobs, t) \subseteq TagRows(jobs', t)
         /\ \A j \in TagRows(jobs, t) : jobs'[j] = jobs[j]
         /\ \A j \in TagRows(jobs', t) \ TagRows(jobs, t) :
               /\ jobs'[j].job_type = "PM"
               /\ jobs'[j].job_description = IF c THEN d ELSE OffDesc(d)
    ELSE /\ TagRows(jobs', t) = TagRows(jobs, t)
         /\ \A j \in TagRows(jobs, t) : jobs'[j] = jobs[j]

\* C30: a confirmed PM route edit whose statements all succeed does, for
\* each tag of the route, exactly what the form's record, tick and
\* description call for: delete, update in place under the same job index,
\* insert one PM record ("Off - " description when unticked) or nothing;
\* no other report of the tag changes.
C30_OneOutcomePerTag ==
    [][\A checked \in [RouteTagSet -> BOOLEAN], desc \in [RouteTagSet -> {"", "d2"}] :
          (/\ ev'.op = "ppm_saved"
           /\ confirmEditPpm[PpmSession] /\ ~confirmEditPpm'[PpmSession]
           /\ PpmGate(PpmSession) = "yes"
           /\ LET st == PpmLoop([jobs |-> jobs, audit |-> audit, nextIdx |-> nextIdx,
                                 full |-> FALSE], PpmSession, 1, checked, desc, AllOk)
              IN ~st.full /\ jobs' = st.jobs /\ nextIdx' = st.nextIdx)
          => \A t \in RouteTagSet :
                PpmOutcome(t, ppmData[PpmSession].jobs_by_tag[t], checked[t], desc[t])]_vars

====
